---------------------------- MODULE Spec2Model ----------------------------
(***************************************************************************)
(* A model of the correlation and change-detection core of the            *)
(* BlueBubbles server: the push-driven update classifier                   *)
(* (PAPIMessageUpdateListener), the outgoing message matcher               *)
(* (OutgoingMessageManager), the helper socket service                     *)
(* (BlueBubblesHelperService) and the send entry point                     *)
(* (MessageInterface.sendMessageSync).                                     *)
(*                                                                         *)
(* Times are milliseconds.  A timestamp of 0 stands for an absent (null)   *)
(* date; dateCreated of a stored row is always present.                    *)
(***************************************************************************)
EXTENDS Integers, Sequences, FiniteSets, TLC

(***************************************************************************)
(* Bounds of the model.                                                    *)
(***************************************************************************)
MaxTicks == 1
MaxPushes == 3
MaxUpdates == 1
MaxPending == 2
MaxBurst == 2
MaxRead == 3
MaxWaits == 3
MaxServers == 7
UidSpan == 3

(***************************************************************************)
(* Program constants.                                                      *)
(***************************************************************************)
PURGE_THRESHOLD == 250
FIVE_MINUTES == 5 * 60 * 1000
SEND_OFFSET == 10000
TYPING_WINDOW == 5000
MAX_RESTARTS == 5
POLL_OFFSET == 15000

(***************************************************************************)
(* Input domains.                                                          *)
(***************************************************************************)
Guids == {"G1", "G2"}
Chats == {"C1"}
Texts == {"hi", "yo"}
StartTime == 1000 * 1000
Tick == FIVE_MINUTES + 1
EndTime == StartTime + MaxTicks * Tick
DateFields == {"dateCreated", "dateDelivered", "dateRead", "dateEdited", "dateRetracted"}
BulkRows == PURGE_THRESHOLD + 1

VARIABLES
    now,          \* wall clock (new Date().getTime())
    store,        \* the message store: guid -> row, owned by the external database
    updates,      \* how many times a row of the store was updated
    cache,        \* PAPIMessageUpdateListener.cache (EventCache, shared with the pollers)
    cacheState,   \* PAPIMessageUpdateListener.cacheState: guid -> MessageState
    notSent,      \* PAPIMessageUpdateListener.notSent
    pollers,      \* per polling listener: its state, timer and last successful window
    promises,     \* OutgoingMessageManager.promises
    txns,         \* TransactionManager.promises
    settled,      \* the deferred result of every TransactionPromise created
    typingCache,  \* BlueBubblesHelperService.typingCache
    helper,       \* BlueBubblesHelperService.helper: a socket id, 0 for null
    sockets,      \* the accepted sockets that are open
    server,       \* BlueBubblesHelperService.server: an index of servers, 0 for null
    servers,      \* every net.Server the service created, in order of creation
    restartCounter, \* BlueBubblesHelperService.restartCounter
    errorRun,     \* the server errors and restarts since the last successful listen
    awaits,       \* the deferred results that a caller is suspended on
    pushLog,      \* per guid, the classifications made since the last maintenance run
    last          \* what the most recent operation did

envVars == <<now, store, updates>>
pollVars == <<pollers>>
listenerVars == <<cache, cacheState, notSent, pollVars>>
serverVars == <<server, servers, restartCounter, errorRun>>
callVars == <<awaits>>
helperVars == <<txns, settled, typingCache, helper, sockets, serverVars, callVars>>
vars == <<now, store, updates, cache, cacheState, notSent, pollVars, promises, txns, settled,
          typingCache, helper, sockets, serverVars, callVars, pushLog, last>>

(***************************************************************************)
(* Values.                                                                 *)
(***************************************************************************)
Null == "null"

\* this.notSent before its first assignment, and after
NotSentUndefined == [defined |-> FALSE, ids |-> <<>>]
NotSentOf(ids) == [defined |-> TRUE, ids |-> ids]

\* repo.getMessage() returns null for an unknown guid
NoMessage ==
    [present |-> FALSE, guid |-> "", dateCreated |-> 0, dateDelivered |-> 0, dateRead |-> 0,
     dateEdited |-> 0, dateRetracted |-> 0, isFromMe |-> FALSE, isSent |-> FALSE,
     error |-> 0, chat |-> "", text |-> ""]

\* cacheState[guid] is undefined
NoState ==
    [has |-> FALSE, dateCreated |-> 0, dateDelivered |-> 0, dateRead |-> 0,
     dateEdited |-> 0, dateRetracted |-> 0]

NewRow(g, kind, txt, t) ==
    [present |-> TRUE, guid |-> g, dateCreated |-> t, dateDelivered |-> 0, dateRead |-> 0,
     dateEdited |-> 0, dateRetracted |-> 0,
     isFromMe |-> (kind # "incoming"), isSent |-> (kind = "sent"),
     error |-> (IF kind = "errored" THEN 22 ELSE 0), chat |-> "C1", text |-> txt]

\* the five tracked dates of a message, absent dates as 0
\* the row of the guid in the message table, or null
RowOf(st, g) == IF g \in DOMAIN st THEN st[g] ELSE NoMessage

StateOf(message) ==
    [has |-> TRUE,
     dateCreated |-> message.dateCreated,
     dateDelivered |-> message.dateDelivered,
     dateRead |-> message.dateRead,
     dateEdited |-> message.dateEdited,
     dateRetracted |-> message.dateRetracted]

(***************************************************************************)
(* EventCache: membership of string keys.  The classifier's key of a       *)
(* message is its guid.  keys holds the guids of the messages of the       *)
(* model, others counts the cached keys of all other messages.             *)
(***************************************************************************)
EmptyCache == [keys |-> {}, others |-> 0]
CacheFind(c, g) == g \in c.keys
\* an add that stores a key again when it is present
CacheAddAgain(c, g) ==
    [c EXCEPT !.keys = @ \cup {g}, !.others = @ + (IF g \in c.keys THEN 1 ELSE 0)]

CacheAdd(c, g) == [c EXCEPT !.keys = @ \cup {g}]
CacheSize(c) == Cardinality(c.keys) + c.others
CachePurge(c) == EmptyCache

(***************************************************************************)
(* PAPIMessageUpdateListener.getMessageEvent                               *)
(***************************************************************************)
\* a classifier that takes an equal dateCreated for an advance
getMessageEventNotStrict(c, cs, message) ==
    IF ~CacheFind(c, message.guid) THEN "new-entry"
    ELSE IF ~cs[message.guid].has THEN Null
    ELSE IF message.dateCreated >= cs[message.guid].dateCreated THEN "updated-entry"
    ELSE Null

\* a classifier that does not look at dateRead
getMessageEventNoRead(c, cs, message) ==
    IF ~CacheFind(c, message.guid) THEN "new-entry"
    ELSE LET state == cs[message.guid] IN
         IF ~state.has THEN Null
         ELSE IF message.dateCreated > state.dateCreated THEN "updated-entry"
         ELSE IF message.dateDelivered > state.dateDelivered THEN "updated-entry"
         ELSE IF message.dateEdited > state.dateEdited THEN "updated-entry"
         ELSE IF message.dateRetracted > state.dateRetracted THEN "updated-entry"
         ELSE Null

\* a classifier that does not look at dateDelivered
getMessageEventNoDelivered(c, cs, message) ==
    IF ~CacheFind(c, message.guid) THEN "new-entry"
    ELSE LET state == cs[message.guid] IN
         IF ~state.has THEN Null
         ELSE IF message.dateCreated > state.dateCreated THEN "updated-entry"
         ELSE IF message.dateRead > state.dateRead THEN "updated-entry"
         ELSE IF message.dateEdited > state.dateEdited THEN "updated-entry"
         ELSE IF message.dateRetracted > state.dateRetracted THEN "updated-entry"
         ELSE Null

\* a classifier that takes a missing snapshot for an update
getMessageEventNoSnapshot(c, cs, message) ==
    IF ~CacheFind(c, message.guid) THEN "new-entry"
    ELSE LET state == cs[message.guid] IN
         IF ~state.has THEN "updated-entry"
         ELSE IF \E f \in DateFields : message[f] > state[f] THEN "updated-entry"
         ELSE Null

getMessageEvent(c, cs, message) ==
    IF ~CacheFind(c, message.guid) THEN "new-entry"
    ELSE LET state == cs[message.guid] IN
         IF ~state.has THEN Null
         ELSE IF message.dateCreated > state.dateCreated THEN "updated-entry"
         ELSE IF message.dateDelivered > state.dateDelivered THEN "updated-entry"
         ELSE IF message.dateRead > state.dateRead THEN "updated-entry"
         ELSE IF message.dateEdited > state.dateEdited THEN "updated-entry"
         ELSE IF message.dateRetracted > state.dateRetracted THEN "updated-entry"
         ELSE Null

(***************************************************************************)
(* PAPIMessageUpdateListener.processMessageEvent, as a function of the     *)
(* cache, the snapshot table and the message.  A null message throws a     *)
(* TypeError at message.guid before anything is written.                   *)
(***************************************************************************)
\* a processMessageEvent that forgets cache.add on a new entry
applyMessageEventNoAdd(c, cs, message, event) ==
    IF event = Null
    THEN [threw |-> FALSE, event |-> Null, cache |-> c, cacheState |-> cs]
    ELSE [threw |-> FALSE, event |-> event, cache |-> c,
          cacheState |-> [cs EXCEPT ![message.guid] = StateOf(message)]]

\* a processMessageEvent that writes the snapshot of a new entry only
applyMessageEventFirstOnly(c, cs, message, event) ==
    IF event = Null
    THEN [threw |-> FALSE, event |-> Null, cache |-> c, cacheState |-> cs]
    ELSE [threw |-> FALSE, event |-> event,
          cache |-> IF event = "new-entry" THEN CacheAdd(c, message.guid) ELSE c,
          cacheState |-> IF event = "new-entry"
                         THEN [cs EXCEPT ![message.guid] = StateOf(message)]
                         ELSE cs]

\* lines 94-108: what processMessageEvent does with the event it got
applyMessageEvent(c, cs, message, event) ==
    IF event = Null
    THEN [threw |-> FALSE, event |-> Null, cache |-> c, cacheState |-> cs]
    ELSE [threw |-> FALSE, event |-> event,
          cache |-> IF event = "new-entry" THEN CacheAdd(c, message.guid) ELSE c,
          cacheState |-> [cs EXCEPT ![message.guid] = StateOf(message)]]

\* a processMessageEvent that takes a missing record for a new entry
processMessageEventOfMissing(c, cs, message) ==
    IF ~message.present
    THEN [threw |-> FALSE, event |-> "new-entry", cache |-> CacheAdd(c, message.guid),
          cacheState |-> cs]
    ELSE applyMessageEvent(c, cs, message, getMessageEvent(c, cs, message))

processMessageEvent(c, cs, message) ==
    IF ~message.present
    THEN [threw |-> TRUE, event |-> Null, cache |-> c, cacheState |-> cs]
    ELSE applyMessageEvent(c, cs, message, getMessageEvent(c, cs, message))


(***************************************************************************)
(* MessagePromise: a pending send.  isSame is the match predicate: same    *)
(* conversation, equal text, creation time within the tolerance of the     *)
(* intent's time.  resolve and reject settle the deferred result and mark  *)
(* the intent resolved; calls counts the settle calls made on the intent.  *)
(***************************************************************************)
Tolerance == 60 * 1000

NoPromise ==
    [id |-> 0, chatGuid |-> "", text |-> "", sentAt |-> 0, isResolved |-> FALSE,
     outcome |-> "none", result |-> "", calls |-> 0]

\* id is the identity of the promise object: its place in the manager's list
NewPromise(id, chatGuid, text, sentAt) ==
    [id |-> id, chatGuid |-> chatGuid, text |-> text, sentAt |-> sentAt,
     isResolved |-> FALSE, outcome |-> "pending", result |-> "", calls |-> 0]

Abs(x) == IF x < 0 THEN -x ELSE x

isSame(p, message) ==
    /\ p.chatGuid = message.chat
    /\ p.text = message.text
    /\ Abs(message.dateCreated - p.sentAt) <= Tolerance

PromiseResolve(p, message) ==
    [p EXCEPT !.isResolved = TRUE,
              !.outcome = IF p.outcome = "pending" THEN "fulfilled" ELSE p.outcome,
              !.result = IF p.outcome = "pending" THEN message.guid ELSE p.result,
              !.calls = p.calls + 1]

PromiseReject(p, reason, message) ==
    [p EXCEPT !.isResolved = TRUE,
              !.outcome = IF p.outcome = "pending" THEN "rejected" ELSE p.outcome,
              !.result = IF p.outcome = "pending" THEN reason ELSE p.result,
              !.calls = p.calls + 1]

(***************************************************************************)
(* OutgoingMessageManager.  Indexes are 0-based as in the code; the i-th   *)
(* promise of the code is ps[i + 1].                                       *)
(***************************************************************************)
add(ps, promise) == Append(ps, promise)

\* a scan that returns the last intent that matches instead of the first
RECURSIVE findIndexLastFrom(_, _, _, _)
findIndexLastFrom(ps, message, includeResolved, i) ==
    IF i < 0 THEN -1
    ELSE IF ~includeResolved /\ ps[i + 1].isResolved
         THEN findIndexLastFrom(ps, message, includeResolved, i - 1)
    ELSE IF isSame(ps[i + 1], message) THEN i
    ELSE findIndexLastFrom(ps, message, includeResolved, i - 1)

findIndexLast(ps, message, includeResolved) ==
    findIndexLastFrom(ps, message, includeResolved, Len(ps) - 1)

RECURSIVE findIndexFrom(_, _, _, _)
findIndexFrom(ps, message, includeResolved, i) ==
    IF i >= Len(ps) THEN -1
    ELSE IF ~includeResolved /\ ps[i + 1].isResolved
         THEN findIndexFrom(ps, message, includeResolved, i + 1)
    ELSE IF isSame(ps[i + 1], message) THEN i
    ELSE findIndexFrom(ps, message, includeResolved, i + 1)

findIndex(ps, message, includeResolved) == findIndexFrom(ps, message, includeResolved, 0)

\* a scan that does not skip the resolved intents
RECURSIVE findAnyFrom(_, _, _)
findAnyFrom(ps, message, i) ==
    IF i >= Len(ps) THEN NoPromise
    ELSE IF isSame(ps[i + 1], message) THEN ps[i + 1]
    ELSE findAnyFrom(ps, message, i + 1)

findAny(ps, message, includeResolved) == findAnyFrom(ps, message, 0)

RECURSIVE findFrom(_, _, _, _)
findFrom(ps, message, includeResolved, i) ==
    IF i >= Len(ps) THEN NoPromise
    ELSE IF ~includeResolved /\ ps[i + 1].isResolved
         THEN findFrom(ps, message, includeResolved, i + 1)
    ELSE IF isSame(ps[i + 1], message) THEN ps[i + 1]
    ELSE findFrom(ps, message, includeResolved, i + 1)

find(ps, message, includeResolved) == findFrom(ps, message, includeResolved, 0)

\* messageManager.resolve(record): find the match and fulfil it
ResolveFound(ps, p, message) ==
    IF p = NoPromise THEN ps
    ELSE [ps EXCEPT ![p.id] = PromiseResolve(p, message)]

ManagerResolve(ps, message) == ResolveFound(ps, find(ps, message, FALSE), message)

\* messageManager.reject(reason, record): find the match and fail it;
\* .found tells whether there was a match
RejectFound(ps, p, reason, message) ==
    IF p = NoPromise THEN [found |-> FALSE, promises |-> ps]
    ELSE [found |-> TRUE, promises |-> [ps EXCEPT ![p.id] = PromiseReject(p, reason, message)]]

ManagerReject(ps, reason, message) ==
    RejectFound(ps, find(ps, message, FALSE), reason, message)

(***************************************************************************)
(* PAPIMessageUpdateListener.handleOutgoingMessage and                     *)
(* handleOutgoingMessageUpdate, as functions of the state they read.  The  *)
(* result tells whether the call threw and what it had written and emitted *)
(* by then.                                                                *)
(***************************************************************************)
Emit(event, kind, message) == [event |-> event, kind |-> kind, guid |-> message.guid]

Outcome(threw, ns, c, cs, ps, emits) ==
    [threw |-> threw, notSent |-> ns, cache |-> c, cacheState |-> cs, promises |-> ps,
     emits |-> emits]

\* One entry of the loop over toEmit (lines 167-176), r being what
\* processMessageEvent returned for it: .stop tells that the handler is left,
\* by a throw of processMessageEvent or by the return on no event.
EmitEntry(entry, O, r) ==
    IF r.threw THEN [stop |-> TRUE, O |-> [O EXCEPT !.threw = TRUE]]
    ELSE IF r.event = Null THEN [stop |-> TRUE, O |-> O]
    ELSE [stop |-> FALSE,
          O |-> [O EXCEPT !.cache = r.cache, !.cacheState = r.cacheState,
                          !.promises = ManagerResolve(@, entry),
                          !.emits = Append(@, Emit(r.event, "outgoing-message", entry))]]

EmitStep(entry, O) == EmitEntry(entry, O, processMessageEvent(O.cache, O.cacheState, entry))

\* One entry of the loop over [lookbackErrored] (lines 177-197), rej being what
\* messageManager.reject returned for it.
ErrorEntry(entry, O, r, rej) ==
    IF r.threw THEN [stop |-> TRUE, O |-> [O EXCEPT !.threw = TRUE]]
    ELSE IF r.event = Null THEN [stop |-> TRUE, O |-> O]
    ELSE [stop |-> FALSE,
          O |-> [O EXCEPT !.cache = r.cache, !.cacheState = r.cacheState,
                          !.promises = rej.promises,
                          !.emits = IF rej.found THEN @
                                    ELSE Append(@, Emit("message-send-error",
                                                        "outgoing-message", entry))]]

ErrorStep(entry, O) ==
    ErrorEntry(entry, O, processMessageEvent(O.cache, O.cacheState, entry),
               ManagerReject(O.promises, "message-send-error", entry))

\* the two loops in turn: toEmit first, then errored
RECURSIVE EmitLoop(_, _, _)
RECURSIVE EmitNext(_, _, _)
EmitNext(step, toEmit, errored) ==
    IF step.stop THEN step.O ELSE EmitLoop(toEmit, errored, step.O)

EmitLoop(toEmit, errored, O) ==
    IF toEmit # <<>> THEN EmitNext(EmitStep(Head(toEmit), O), Tail(toEmit), errored)
    ELSE IF errored # <<>> THEN EmitNext(ErrorStep(Head(errored), O), <<>>, Tail(errored))
    ELSE O

handleOutgoingMessage(st, ns, c, cs, ps, messageGUID, isSent) ==
    LET newMessage == RowOf(st, messageGUID)
        newSent == IF isSent THEN newMessage ELSE NoMessage
        newUnsent == IF ~isSent THEN newMessage ELSE NoMessage
        thrown == Outcome(TRUE, ns, c, cs, ps, <<>>)
    IN
    \* line 145: newUnsent.guid of null
    IF ~newUnsent.present THEN thrown
    \* line 146: this.notSent is not iterable until line 161 has run once
    ELSE IF ~ns.defined THEN thrown
    ELSE LET unsentIds == IF ns.ids = <<>> THEN newUnsent.guid ELSE ns.ids[Len(ns.ids)]
             lookbackMessage == RowOf(st, unsentIds)
         IN
         \* line 157: lookbackMessage.isSent of null
         IF ~lookbackMessage.present THEN thrown
         ELSE LET lookbackSent ==
                      IF lookbackMessage.isSent /\ lookbackMessage.error = 0
                      THEN lookbackMessage ELSE NoMessage
                  lookbackErrored ==
                      IF lookbackMessage.error > 0 THEN lookbackMessage ELSE NoMessage
                  lookbackUnsent ==
                      IF ~lookbackMessage.isSent /\ lookbackMessage.error = 0
                      THEN lookbackMessage ELSE NoMessage
                  toEmit == (IF newSent.present THEN <<newSent>> ELSE <<>>)
                            \o (IF lookbackSent.present THEN <<lookbackSent>> ELSE <<>>)
              IN
              \* line 161: lookbackUnsent.guid of null
              IF ~lookbackUnsent.present THEN thrown
              ELSE EmitLoop(toEmit, <<lookbackErrored>>,
                            Outcome(FALSE, NotSentOf(<<lookbackUnsent.guid>>),
                                    c, cs, ps, <<>>))

\* handleOutgoingMessageUpdate (lines 200-210); r is what processMessageEvent
\* returned for the entry
OutgoingUpdate(O, entry, r) ==
    IF r.threw THEN [O EXCEPT !.threw = TRUE]
    ELSE IF r.event = Null THEN O
    ELSE [O EXCEPT !.cache = r.cache, !.cacheState = r.cacheState,
                   !.promises = ManagerResolve(@, entry),
                   !.emits = Append(@, Emit(r.event, "", entry))]

handleOutgoingMessageUpdate(st, O, messageGUID) ==
    OutgoingUpdate(O, RowOf(st, messageGUID),
                   processMessageEvent(O.cache, O.cacheState, RowOf(st, messageGUID)))

\* an incoming branch that settles the matching pending send on every event
IncomingUpdateResolving(O, newMessage, r) ==
    IF r.threw THEN [O EXCEPT !.threw = TRUE]
    ELSE IF r.event = Null THEN O
    ELSE [O EXCEPT !.cache = r.cache, !.cacheState = r.cacheState,
                   !.promises = ManagerResolve(@, newMessage),
                   !.emits = Append(@, Emit(r.event, "incoming-message", newMessage))]

\* an incoming branch in which the snapshot is written whatever the event
IncomingUpdateWriting(O, newMessage, r) ==
    IF r.threw THEN [O EXCEPT !.threw = TRUE]
    ELSE IF r.event = Null
    THEN [O EXCEPT !.cacheState = [@ EXCEPT ![newMessage.guid] = StateOf(newMessage)]]
    ELSE [O EXCEPT !.cache = r.cache, !.cacheState = r.cacheState,
                   !.emits = Append(@, Emit(r.event, "incoming-message", newMessage))]

\* the incoming branch of onReceiveMessageUpdate (lines 128-133); r is what
\* processMessageEvent returned for the message
IncomingUpdate(O, newMessage, r) ==
    IF r.threw THEN [O EXCEPT !.threw = TRUE]
    ELSE IF r.event = Null THEN O
    ELSE [O EXCEPT !.cache = r.cache, !.cacheState = r.cacheState,
                   !.emits = Append(@, Emit(r.event, "incoming-message", newMessage))]

handleIncomingMessage(st, O, messageGUID) ==
    IncomingUpdate(O, RowOf(st, messageGUID),
                   processMessageEvent(O.cache, O.cacheState, RowOf(st, messageGUID)))

\* lines 125-126: a throw of handleOutgoingMessage leaves the function before
\* handleOutgoingMessageUpdate is called
AfterOutgoing(st, a, messageGUID) ==
    IF a.threw THEN a ELSE handleOutgoingMessageUpdate(st, a, messageGUID)

\* onReceiveMessageUpdate from its first await on, O being the state it starts in
onReceiveMessageUpdate(st, O, messageGUID, isSent, isFromMe) ==
    IF isFromMe
    THEN AfterOutgoing(st, handleOutgoingMessage(st, O.notSent, O.cache, O.cacheState,
                                                 O.promises, messageGUID, isSent),
                       messageGUID)
    ELSE handleIncomingMessage(st, O, messageGUID)


(***************************************************************************)
(* TransactionManager and TransactionPromise: the pending helper requests, *)
(* keyed by transactionId.  A transaction that is fulfilled or rejected is *)
(* removed from the manager; its deferred result stays with the caller.    *)
(***************************************************************************)
TxnIds == {"T1", "T2"}

NoResult == [outcome |-> "none", value |-> ""]

RECURSIVE TxnFindIndexFrom(_, _, _)
TxnFindIndexFrom(ts, transactionId, i) ==
    IF i >= Len(ts) THEN -1
    ELSE IF ts[i + 1].transactionId = transactionId THEN i
    ELSE TxnFindIndexFrom(ts, transactionId, i + 1)

TxnFindIndex(ts, transactionId) == TxnFindIndexFrom(ts, transactionId, 0)

TxnAdd(ts, transaction) == Append(ts, transaction)

RemoveAt(seq, i) == SubSeq(seq, 1, i - 1) \o SubSeq(seq, i + 1, Len(seq))

\* promises[idx].resolve(identifier, data) and promises[idx].reject(error)
TxnSettle(ts, done, idx, outcome, value) ==
    LET id == ts[idx + 1].transactionId IN
    [txns |-> RemoveAt(ts, idx + 1),
     settled |-> IF done[id].outcome = "pending"
                 THEN [done EXCEPT ![id] = [outcome |-> outcome, value |-> value]]
                 ELSE done]

(***************************************************************************)
(* Frames of the helper protocol, as decoded by JSON.parse: json tells     *)
(* whether the line is blank, fails to parse, parses to null or parses to  *)
(* an object; an absent field of the object is "".                         *)
(***************************************************************************)
Frame(json, transactionId, identifier, error, event, guid) ==
    [json |-> json, transactionId |-> transactionId, identifier |-> identifier,
     error |-> error, event |-> event, guid |-> guid]

ResponseFrame(transactionId, identifier, error) ==
    Frame("obj", transactionId, identifier, error, "", "")
EventFrame(event, guid) == Frame("obj", "", "", "", event, guid)
BadFrame == Frame("bad", "", "", "", "", "")
NullFrame == Frame("null", "", "", "", "", "")
BlankFrame == Frame("blank", "", "", "", "", "")

\* [...new Set(eventData)]: the lines of the read, each once, in the order of
\* their first occurrence
RECURSIVE Unique(_)
Unique(lines) ==
    IF lines = <<>> THEN <<>>
    ELSE LET rest == Unique(SubSeq(lines, 1, Len(lines) - 1))
             x == lines[Len(lines)]
         IN IF \E i \in 1..Len(rest) : rest[i] = x THEN rest ELSE Append(rest, x)

(***************************************************************************)
(* BlueBubblesHelperService.handleTypingIndicator                          *)
(***************************************************************************)
NoTyping == [has |-> FALSE, lastSeen |-> 0, lastValue |-> FALSE]

\* a debounce that lets a repeat through at the end of the window
handleTypingIndicatorAtWindow(tc, event, guid, t) ==
    IF tc[guid].has /\ tc[guid].lastValue = (event = "started-typing")
       /\ t - tc[guid].lastSeen < TYPING_WINDOW
    THEN [typingCache |-> tc, emits |-> <<>>]
    ELSE [typingCache |-> [tc EXCEPT ![guid] = [has |-> TRUE, lastSeen |-> t,
                                                lastValue |-> (event = "started-typing")]],
          emits |-> <<[event |-> "typing-indicator",
                       display |-> (event = "started-typing"), guid |-> guid]>>]

\* handleTypingIndicator, had a suppressed push refreshed lastSeen
handleTypingIndicatorTouch(tc, event, guid, t) ==
    IF tc[guid].has /\ tc[guid].lastValue = (event = "started-typing")
       /\ t - tc[guid].lastSeen <= TYPING_WINDOW
    THEN [typingCache |-> [tc EXCEPT ![guid].lastSeen = t], emits |-> <<>>]
    ELSE [typingCache |-> [tc EXCEPT ![guid] = [has |-> TRUE, lastSeen |-> t,
                                                lastValue |-> (event = "started-typing")]],
          emits |-> <<[event |-> "typing-indicator",
                       display |-> (event = "started-typing"), guid |-> guid]>>]

handleTypingIndicator(tc, event, guid, t) ==
    LET display == (event = "started-typing")
        shouldEmit ==
            IF ~tc[guid].has THEN TRUE
            ELSE IF tc[guid].lastValue # display THEN TRUE
            ELSE t - tc[guid].lastSeen > TYPING_WINDOW
    IN IF shouldEmit
       THEN [typingCache |-> [tc EXCEPT ![guid] =
                                 [has |-> TRUE, lastSeen |-> t, lastValue |-> display]],
             emits |-> <<[event |-> "typing-indicator", display |-> display, guid |-> guid]>>]
       ELSE [typingCache |-> tc, emits |-> <<>>]


(***************************************************************************)
(* The "data" handler of setupListeners (lines 609-663), as a function of  *)
(* the state it reads.  S carries the state written so far; a line that    *)
(* fails to parse, or parses to null, returns from the handler.  The call  *)
(* of onReceiveMessageUpdate passes the guid only, so isSent and isFromMe  *)
(* are undefined in the listener.                                          *)
(***************************************************************************)
Classified(g, message, seen, state, match, r, isFromMe) ==
    [op |-> "classify", guid |-> g, msg |-> message, seen |-> seen, state |-> state,
     match |-> match, threw |-> r.threw, emits |-> r.emits,
     event |-> IF r.threw THEN "threw"
               ELSE IF r.emits = <<>> THEN Null ELSE r.emits[1].event,
     isFromMe |-> isFromMe]

\* a handler that settles the transaction a response names without asking
\* the manager for it
HandleLineAnyResponse(f, S, st, t) ==
    IF f.json = "blank" THEN [stop |-> FALSE, S |-> S]
    ELSE IF f.json = "bad" \/ f.json = "null" THEN [stop |-> TRUE, S |-> S]
    ELSE IF f.transactionId # ""
    THEN [stop |-> FALSE,
          S |-> [S EXCEPT !.settled[f.transactionId] =
                              IF f.error # ""
                              THEN [outcome |-> "rejected", value |-> f.error]
                              ELSE [outcome |-> "fulfilled", value |-> f.identifier]]]
    ELSE [stop |-> FALSE, S |-> S]

\* a handler that fulfils the transaction whatever error the response carries
HandleLineNoReject(f, S, st, t) ==
    IF f.json = "blank" THEN [stop |-> FALSE, S |-> S]
    ELSE IF f.json = "bad" \/ f.json = "null" THEN [stop |-> TRUE, S |-> S]
    ELSE IF f.transactionId # "" /\ TxnFindIndex(S.txns, f.transactionId) >= 0
    THEN LET x == TxnSettle(S.txns, S.settled, TxnFindIndex(S.txns, f.transactionId),
                            "fulfilled", f.identifier)
         IN [stop |-> FALSE, S |-> [S EXCEPT !.txns = x.txns, !.settled = x.settled]]
    ELSE [stop |-> FALSE, S |-> S]

\* a handler that gives a response nobody waits for to the oldest transaction
HandleLineMissToOldest(f, S, st, t) ==
    IF f.json = "blank" THEN [stop |-> FALSE, S |-> S]
    ELSE IF f.json = "bad" \/ f.json = "null" THEN [stop |-> TRUE, S |-> S]
    ELSE IF f.transactionId # "" /\ S.txns # <<>>
    THEN LET idx == IF TxnFindIndex(S.txns, f.transactionId) >= 0
                    THEN TxnFindIndex(S.txns, f.transactionId) ELSE 0
             x == TxnSettle(S.txns, S.settled, idx,
                            IF f.error # "" THEN "rejected" ELSE "fulfilled",
                            IF f.error # "" THEN f.error ELSE f.identifier)
         IN [stop |-> FALSE, S |-> [S EXCEPT !.txns = x.txns, !.settled = x.settled]]
    ELSE [stop |-> FALSE, S |-> S]

\* the listener's part of the state written so far
ListenerState(S) == Outcome(FALSE, S.notSent, S.cache, S.cacheState, S.promises, <<>>)

\* lines 657-659: the state after the listener's call returned r
MessageUpdate(S, g, message, r) ==
    [S EXCEPT !.notSent = r.notSent, !.cache = r.cache, !.cacheState = r.cacheState,
              !.promises = r.promises,
              !.classified = Append(@, Classified(g, message, CacheFind(S.cache, g),
                                                  S.cacheState[g],
                                                  find(S.promises, message, FALSE).id,
                                                  r, FALSE))]

\* the body of the loop for one line: .stop tells that the handler returned
HandleLine(f, S, st, t) ==
    IF f.json = "blank" THEN [stop |-> FALSE, S |-> S]
    ELSE IF f.json = "bad" THEN [stop |-> TRUE, S |-> S]
    ELSE IF f.json = "null" THEN [stop |-> TRUE, S |-> S]
    ELSE IF f.transactionId # ""
    THEN LET idx == TxnFindIndex(S.txns, f.transactionId) IN
         IF idx >= 0
         THEN LET x == IF f.error # ""
                       THEN TxnSettle(S.txns, S.settled, idx, "rejected", f.error)
                       ELSE TxnSettle(S.txns, S.settled, idx, "fulfilled", f.identifier)
              IN [stop |-> FALSE, S |-> [S EXCEPT !.txns = x.txns, !.settled = x.settled]]
         ELSE [stop |-> FALSE, S |-> S]
    ELSE IF f.event = "ping" THEN [stop |-> FALSE, S |-> S]
    ELSE IF f.event = "started-typing" \/ f.event = "stopped-typing"
    THEN LET x == handleTypingIndicator(S.typingCache, f.event, f.guid, t) IN
         [stop |-> FALSE,
          S |-> [S EXCEPT !.typingCache = x.typingCache, !.emits = @ \o x.emits]]
    ELSE IF f.event = "message-update"
    THEN [stop |-> FALSE,
          S |-> MessageUpdate(S, f.guid, RowOf(st, f.guid),
                              onReceiveMessageUpdate(st, ListenerState(S), f.guid,
                                                     FALSE, FALSE))]
    ELSE [stop |-> FALSE, S |-> S]

\* the line was decoded to an object and goes on to the dispatch
Decoded(S, f) ==
    IF f.json = "obj" THEN [S EXCEPT !.dispatched = Append(@, f)] ELSE S

RECURSIVE DataLoop(_, _, _, _)
RECURSIVE DataNext(_, _, _, _)
DataNext(step, frames, st, t) ==
    IF step.stop THEN step.S ELSE DataLoop(frames, step.S, st, t)

DataLoop(frames, S, st, t) ==
    IF frames = <<>> THEN S
    ELSE DataNext(HandleLine(Head(frames), Decoded(S, Head(frames)), st, t),
                  Tail(frames), st, t)

(***************************************************************************)
(* The listening server of the helper service (part_001, lines 243-319).   *)
(* A net.Server is "binding" from listen() until the bind succeeds         *)
(* ("listening") or fails ("failed"), and "closed" after close(); listeners *)
(* tells whether the handlers registered on it are still in place.  L is   *)
(* the service's state: helper, sockets, server, servers.                  *)
(***************************************************************************)
NoErrors == [failures |-> 0, restarts |-> 0]

Service(h, sk, sv, svs) == [helper |-> h, sockets |-> sk, server |-> sv, servers |-> svs]

\* server.listening
IsListening(L) == L.servers[L.server].state = "listening"

\* the port is held by a server or about to be
InUse(svs) == {i \in 1..Len(svs) : svs[i].state \in {"binding", "listening"}}

\* stop()
helperStop(L) ==
    LET destroys == L.helper # 0 /\ L.helper \in L.sockets
        closes == L.server # 0 /\ IsListening(L)
    IN Service(IF destroys THEN 0 ELSE L.helper,
               IF destroys THEN L.sockets \ {L.helper} ELSE L.sockets,
               IF closes THEN 0 ELSE L.server,
               IF closes
               THEN [L.servers EXCEPT ![L.server] = [state |-> "closed", listeners |-> FALSE]]
               ELSE L.servers)

\* configureServer() and server.listen() on the new server
configureServer(L) ==
    Service(L.helper, L.sockets, Len(L.servers) + 1,
            Append(L.servers, [state |-> "binding", listeners |-> TRUE]))

helperStart(L) == configureServer(helperStop(L))

\* whether the error handler restarts the service
MayRestart(counter) == counter <= MAX_RESTARTS

\* no caller is suspended
NoCalls == [requests |-> {}, sends |-> {}]

(***************************************************************************)
(* The polling listeners: the incoming variant and the outgoing one.  Each *)
(* is constructed started, its first window beginning at that time.        *)
(***************************************************************************)
Variants == {"incoming", "outgoing"}

\* state is the listener's ("idle" or "polling"), timer whether its next cycle
\* is scheduled, failed whether the query of its last cycle failed
Polling(t) == [state |-> "polling", timer |-> TRUE, lastCheck |-> t, failed |-> FALSE]

(***************************************************************************)
(* What the most recent operation did.                                     *)
(***************************************************************************)
Idle == [op |-> "other"]

\* the number of classifications in the log
RECURSIVE LoggedPushes(_, _)
LoggedPushes(log, gs) ==
    IF gs = {} THEN 0
    ELSE LET g == CHOOSE x \in gs : TRUE IN Len(log[g]) + LoggedPushes(log, gs \ {g})

RECURSIVE Logged(_, _)
Logged(log, classified) ==
    IF classified = <<>> THEN log
    ELSE LET c == Head(classified) IN
         Logged([log EXCEPT ![c.guid] = Append(@, [msg |-> c.msg, seen |-> c.seen,
                                                   event |-> c.event])],
                Tail(classified))

Init ==
    /\ now = StartTime
    /\ store = [g \in Guids |-> NoMessage]
    /\ updates = 0
    /\ cache = EmptyCache
    /\ cacheState = [g \in Guids |-> NoState]
    /\ notSent = NotSentUndefined
    /\ pollers = [v \in Variants |-> Polling(StartTime)]
    /\ promises = <<>>
    /\ txns = <<>>
    /\ settled = [id \in TxnIds |-> NoResult]
    /\ typingCache = [c \in Chats |-> NoTyping]
    /\ helper = 0
    /\ sockets = {}
    /\ server = 0
    /\ servers = <<>>
    /\ restartCounter = 0
    /\ errorRun = NoErrors
    /\ awaits = NoCalls
    /\ pushLog = [g \in Guids |-> <<>>]
    /\ last = Idle

(***************************************************************************)
(* The environment: the clock and the message store.                       *)
(***************************************************************************)
AdvanceClock ==
    /\ now + Tick <= EndTime
    /\ now' = now + Tick
    /\ last' = Idle
    /\ UNCHANGED <<store, updates, listenerVars, promises, helperVars, pushLog>>

\* Time passes between two reads of the helper socket, by half the typing
\* window or by just more than all of it.
Elapse(ms) ==
    /\ now + ms <= StartTime + MaxWaits * (TYPING_WINDOW + 1)
    /\ now' = now + ms
    /\ UNCHANGED <<store, updates, listenerVars, promises, helperVars, pushLog, last>>

\* the store gains a row
InsertRow(g, kind, txt) ==
    /\ ~store[g].present
    /\ store' = [store EXCEPT ![g] = NewRow(g, kind, txt, now)]
    /\ last' = Idle
    /\ UNCHANGED <<now, updates, listenerVars, promises, helperVars, pushLog>>

\* one of the dates of a row moves forward to the present time
UpdateRow(g, f) ==
    /\ store[g].present
    /\ store[g][f] < now
    /\ updates < MaxUpdates
    /\ updates' = updates + 1
    /\ store' = [store EXCEPT ![g][f] = now]
    /\ last' = Idle
    /\ UNCHANGED <<now, listenerVars, promises, helperVars, pushLog>>

(***************************************************************************)
(* The helper socket: a connection is accepted (configureServer, lines     *)
(* 244-248), an accepted socket closes (lines 253-256), a read arrives.    *)
(***************************************************************************)
SocketIds == {1, 2}

Accept(socket) ==
    /\ socket \notin sockets
    /\ helper' = socket
    /\ sockets' = sockets \cup {socket}
    /\ last' = Idle
    /\ UNCHANGED <<envVars, listenerVars, promises, txns, settled, typingCache, serverVars,
                   callVars, pushLog>>

Close(socket) ==
    /\ socket \in sockets
    /\ helper' = 0
    /\ sockets' = sockets \ {socket}
    /\ last' = Idle
    /\ UNCHANGED <<envVars, listenerVars, promises, txns, settled, typingCache, serverVars,
                   callVars, pushLog>>

\* start() of the helper service
Start ==
    /\ Len(servers) < MaxServers
    /\ \E L \in {helperStart(Service(helper, sockets, server, servers))} :
          /\ helper' = L.helper
          /\ sockets' = L.sockets
          /\ server' = L.server
          /\ servers' = L.servers
    /\ last' = [op |-> "start"]
    /\ UNCHANGED <<envVars, listenerVars, promises, txns, settled, typingCache,
                   restartCounter, errorRun, callVars, pushLog>>

\* stop() of the helper service
Stop ==
    /\ \E L \in {helperStop(Service(helper, sockets, server, servers))} :
          /\ helper' = L.helper
          /\ sockets' = L.sockets
          /\ server' = L.server
          /\ servers' = L.servers
    /\ last' = [op |-> "stop", helper |-> helper, server |-> server]
    /\ UNCHANGED <<envVars, listenerVars, promises, txns, settled, typingCache,
                   restartCounter, errorRun, callVars, pushLog>>

\* the bind of server sv succeeds: the callback given to listen() runs
ListeningNoReset(sv) ==
    /\ sv \in 1..Len(servers)
    /\ servers[sv].state = "binding"
    /\ InUse(servers) = {sv}
    /\ servers' = [servers EXCEPT ![sv].state = "listening"]
    /\ errorRun' = NoErrors
    /\ last' = [op |-> "listening", server |-> sv]
    /\ UNCHANGED <<envVars, listenerVars, promises, txns, settled, typingCache, helper,
                   sockets, server, restartCounter, callVars, pushLog>>

Listening(sv) ==
    /\ sv \in 1..Len(servers)
    /\ servers[sv].state = "binding"
    /\ InUse(servers) = {sv}
    /\ servers' = [servers EXCEPT ![sv].state = "listening"]
    /\ restartCounter' = 0
    /\ errorRun' = NoErrors
    /\ last' = [op |-> "listening", server |-> sv]
    /\ UNCHANGED <<envVars, listenerVars, promises, txns, settled, typingCache, helper,
                   sockets, server, callVars, pushLog>>

\* server sv emits "error": its bind failed, or an accept failed while it
\* listens.  The handler restarts the service or logs that it gave up.
ServerError(sv) ==
    /\ sv \in 1..Len(servers)
    /\ servers[sv].state \in {"binding", "listening"}
    /\ servers[sv].listeners
    /\ MayRestart(restartCounter) => Len(servers) < MaxServers
    /\ LET failed == IF servers[sv].state = "binding"
                     THEN [servers EXCEPT ![sv].state = "failed"]
                     ELSE servers
       IN \E L \in {IF MayRestart(restartCounter)
                     THEN helperStart(Service(helper, sockets, server, failed))
                     ELSE Service(helper, sockets, server, failed)} :
             /\ helper' = L.helper
             /\ sockets' = L.sockets
             /\ server' = L.server
             /\ servers' = L.servers
    /\ restartCounter' = IF MayRestart(restartCounter)
                         THEN restartCounter + 1 ELSE restartCounter
    /\ errorRun' = [failures |-> errorRun.failures + 1,
                    restarts |-> errorRun.restarts
                                 + (IF MayRestart(restartCounter) THEN 1 ELSE 0)]
    /\ last' = [op |-> "server-error", server |-> sv,
                restarted |-> MayRestart(restartCounter),
                failures |-> errorRun.failures + 1]
    /\ UNCHANGED <<envVars, listenerVars, promises, txns, settled, typingCache, callVars,
                   pushLog>>

\* a helper connects to the listening server sv
OnConnection(sv, socket) ==
    /\ sv \in 1..Len(servers)
    /\ servers[sv].state = "listening"
    /\ servers[sv].listeners
    /\ Accept(socket)

\* whether the read consisted of one typing frame
IsTypingPush(l) ==
    /\ l.op = "data"
    /\ Len(l.eventRaw) = 1
    /\ l.eventRaw[1].event \in {"started-typing", "stopped-typing"}

NoPush == [has |-> FALSE, event |-> "", guid |-> "", at |-> 0, emitted |-> 0]

\* the typing push the operation l was, if it was one
TypingPush(l) ==
    IF IsTypingPush(l)
    THEN [has |-> TRUE, event |-> l.eventRaw[1].event, guid |-> l.eventRaw[1].guid,
          at |-> l.at, emitted |-> Len(l.emits)]
    ELSE NoPush

\* One read of an accepted socket.  Each message-update line starts a call of
\* onReceiveMessageUpdate, which is taken to resume before the next one starts.
OnData(socket, eventRaw, logged) ==
    /\ socket \in sockets
    /\ logged => LoggedPushes(pushLog, Guids) + Len(eventRaw) <= MaxPushes
    /\ LET S0 == [txns |-> txns, settled |-> settled, typingCache |-> typingCache,
                  notSent |-> notSent, cache |-> cache, cacheState |-> cacheState,
                  promises |-> promises, emits |-> <<>>, classified |-> <<>>,
                  dispatched |-> <<>>]
       IN \E S \in {DataLoop(Unique(eventRaw), S0, store, now)} :
          /\ txns' = S.txns
          /\ settled' = S.settled
          /\ typingCache' = S.typingCache
          /\ notSent' = S.notSent
          /\ cache' = S.cache
          /\ cacheState' = S.cacheState
          /\ promises' = S.promises
          /\ pushLog' = IF logged THEN Logged(pushLog, S.classified) ELSE pushLog
          /\ last' = IF S.classified # <<>> THEN S.classified[Len(S.classified)]
                     ELSE [op |-> "data", eventRaw |-> eventRaw, emits |-> S.emits,
                           before |-> [txns |-> txns, settled |-> settled,
                                       typingCache |-> typingCache, cache |-> cache,
                                       cacheState |-> cacheState],
                           at |-> now, prev |-> TypingPush(last),
                           dispatched |-> S.dispatched]
    /\ UNCHANGED <<envVars, pollVars, helper, sockets, serverVars, callVars>>

(***************************************************************************)
(* BlueBubblesHelperService.writeData (lines 666-711) for a request with   *)
(* the transaction transactionId ("" for a request without one); written   *)
(* is what socket.write returns.                                           *)
(***************************************************************************)
WriteData(transactionId, written) ==
    /\ transactionId # "" => settled[transactionId].outcome = "none"
    /\ txns' = IF transactionId # ""
               THEN TxnAdd(txns, [transactionId |-> transactionId])
               ELSE txns
    /\ settled' = IF transactionId # ""
                  THEN [settled EXCEPT ![transactionId] = [outcome |-> "pending", value |-> ""]]
                  ELSE settled
    /\ last' = [op |-> "write", transactionId |-> transactionId,
                sent |-> (helper # 0),
                returned |-> IF helper # 0 /\ written /\ transactionId # ""
                             THEN "promise" ELSE Null]
    /\ awaits' = IF helper # 0 /\ written /\ transactionId # ""
                 THEN [awaits EXCEPT !.requests = @ \cup {transactionId}]
                 ELSE awaits
    /\ UNCHANGED <<envVars, listenerVars, promises, typingCache, helper, sockets, serverVars,
                   pushLog>>

(***************************************************************************)
(* writeData (lines 666-711) with both results of socket.write: written is *)
(* what the call returns, err whether its callback reports an error.  The  *)
(* callback runs after the call returned, when the promise of line 676 is  *)
(* resolved (written) or rejected (not written) already, so its reject     *)
(* (line 690) changes nothing.  Without a helper the call of write throws  *)
(* inside the promise, which rejects it.                                   *)
(***************************************************************************)
\* a writeData that writes the frame and leaves the transaction unregistered
WriteRequestUnregistered(transactionId, written, err) ==
    /\ settled[transactionId].outcome = "none"
    /\ settled' = [settled EXCEPT ![transactionId] = [outcome |-> "pending", value |-> ""]]
    /\ last' = [op |-> "request", transactionId |-> transactionId,
                connected |-> (helper # 0), written |-> written, err |-> err,
                returned |-> IF helper # 0 /\ written THEN "promise" ELSE Null]
    /\ awaits' = IF helper # 0 /\ written
                 THEN [awaits EXCEPT !.requests = @ \cup {transactionId}]
                 ELSE awaits
    /\ UNCHANGED <<envVars, listenerVars, promises, txns, typingCache, helper, sockets,
                   serverVars, pushLog>>

WriteRequest(transactionId, written, err) ==
    /\ settled[transactionId].outcome = "none"
    /\ txns' = TxnAdd(txns, [transactionId |-> transactionId])
    /\ settled' = [settled EXCEPT ![transactionId] = [outcome |-> "pending", value |-> ""]]
    /\ last' = [op |-> "request", transactionId |-> transactionId,
                connected |-> (helper # 0), written |-> written, err |-> err,
                returned |-> IF helper # 0 /\ written THEN "promise" ELSE Null]
    /\ awaits' = IF helper # 0 /\ written
                 THEN [awaits EXCEPT !.requests = @ \cup {transactionId}]
                 ELSE awaits
    /\ UNCHANGED <<envVars, listenerVars, promises, typingCache, helper, sockets, serverVars,
                   pushLog>>

(***************************************************************************)
(* BlueBubblesHelperService.port (lines 128-130): the port of the helper   *)
(* socket for the user id of the process.  The two ends of the port range  *)
(* come from a constants file, clamp from the helpers.                     *)
(***************************************************************************)
MIN_PORT == 45670
MAX_PORT == 65535
FIRST_UID == 501

clamp(value, min, max) ==
    IF value < min THEN min ELSE IF value > max THEN max ELSE value

\* a port that is not clamped
portUnclamped(uid) == MIN_PORT + uid - FIRST_UID

port(uid) == clamp(MIN_PORT + uid - FIRST_UID, MIN_PORT, MAX_PORT)

\* the user ids looked at: -1 and 0, and those around both ends of the range
Uids ==
    {-1, 0} \cup ((FIRST_UID - UidSpan)..(FIRST_UID + UidSpan))
            \cup ((FIRST_UID + MAX_PORT - MIN_PORT - UidSpan)
                     ..(FIRST_UID + MAX_PORT - MIN_PORT + UidSpan))

NoPort == [has |-> FALSE, uid |-> 0, port |-> 0]

\* a read of the port by a process of user uid; prev is the read before it
Port(uid) ==
    /\ last' = [op |-> "port", uid |-> uid, port |-> port(uid),
                prev |-> IF last.op = "port"
                         THEN [has |-> TRUE, uid |-> last.uid, port |-> last.port]
                         ELSE NoPort]
    /\ UNCHANGED <<envVars, listenerVars, promises, helperVars, pushLog>>

(***************************************************************************)
(* The helper commands sendMessage (lines 473-500) and sendReaction (lines *)
(* 373-394): the parameters are tested first, then the transaction is made *)
(* and writeData is called with it.                                        *)
(***************************************************************************)
\* the throw of "Invalid params!": nothing was touched
CommandThrew(action) ==
    /\ last' = [op |-> "command", action |-> action, threw |-> TRUE]
    /\ UNCHANGED <<envVars, listenerVars, promises, helperVars, pushLog>>

\* a command that registers its transaction before it tests the parameters
CommandThrewLate(action, transactionId) ==
    /\ settled[transactionId].outcome = "none"
    /\ txns' = TxnAdd(txns, [transactionId |-> transactionId])
    /\ settled' = [settled EXCEPT ![transactionId] = [outcome |-> "pending", value |-> ""]]
    /\ last' = [op |-> "command", action |-> action, threw |-> TRUE]
    /\ UNCHANGED <<envVars, listenerVars, promises, typingCache, helper, sockets, serverVars,
                   callVars, pushLog>>

sendMessageLate(chatGuid, message, transactionId, written) ==
    IF chatGuid = "" \/ message = ""
    THEN CommandThrewLate("send-message", transactionId)
    ELSE WriteData(transactionId, written)

sendMessage(chatGuid, message, transactionId, written) ==
    IF chatGuid = "" \/ message = ""
    THEN CommandThrew("send-message")
    ELSE WriteData(transactionId, written)

sendReaction(chatGuid, selectedMessageGuid, reactionType, transactionId, written) ==
    IF chatGuid = "" \/ selectedMessageGuid = "" \/ reactionType = ""
    THEN CommandThrew("send-reaction")
    ELSE WriteData(transactionId, written)

(***************************************************************************)
(* A call of PAPIMessageUpdateListener.onReceiveMessageUpdate with its     *)
(* three arguments.  The call reads the store in its awaits and writes the *)
(* listener's state only after the last of them, so it is one step, taken  *)
(* when it resumes.                                                        *)
(***************************************************************************)
OnReceiveMessageUpdate(messageGUID, isSent, isFromMe) ==
    /\ \E r \in {onReceiveMessageUpdate(store, Outcome(FALSE, notSent, cache, cacheState,
                                                        promises, <<>>),
                                        messageGUID, isSent, isFromMe)} :
          /\ notSent' = r.notSent
          /\ cache' = r.cache
          /\ cacheState' = r.cacheState
          /\ promises' = r.promises
          /\ last' = Classified(messageGUID, store[messageGUID],
                                CacheFind(cache, messageGUID), cacheState[messageGUID],
                                find(promises, store[messageGUID], FALSE).id, r, isFromMe)
    /\ UNCHANGED <<envVars, pollVars, helperVars, pushLog>>

(***************************************************************************)
(* PAPIMessageUpdateListener.checkCache and start.                         *)
(***************************************************************************)
checkCache ==
    /\ cache' = IF CacheSize(cache) > PURGE_THRESHOLD
                THEN (IF CacheSize(cache) > 0 THEN CachePurge(cache) ELSE cache)
                ELSE cache
    /\ LET fiveMinutesAgo == now - FIVE_MINUTES IN
       cacheState' = [key \in Guids |->
                         IF cacheState[key].has /\ cacheState[key].dateCreated < fiveMinutesAgo
                         THEN NoState ELSE cacheState[key]]
    /\ pushLog' = [g \in Guids |-> <<>>]
    /\ last' = [op |-> "checkCache", before |-> [cache |-> cache, cacheState |-> cacheState],
                observed |-> IF last.op = "classify" /\ last.event \in {"new-entry",
                                                                        "updated-entry"}
                             THEN last.guid ELSE ""]
    /\ UNCHANGED <<envVars, pollVars, notSent, promises, helperVars>>

start ==
    /\ cache' = CachePurge(cache)
    /\ pushLog' = [g \in Guids |-> <<>>]
    /\ last' = Idle
    /\ UNCHANGED <<envVars, pollVars, cacheState, notSent, promises, helperVars>>

(***************************************************************************)
(* A polling listener that shares the dedup cache finds a batch of rows of *)
(* other messages: the key of each is added to the cache.                  *)
(***************************************************************************)
getEntries(rows) ==
    /\ cache.others = 0
    /\ cache' = [cache EXCEPT !.others = rows]
    /\ last' = Idle
    /\ UNCHANGED <<envVars, pollVars, cacheState, notSent, promises, helperVars, pushLog>>

(***************************************************************************)
(* IncomingMessageListener.getEntries(after, before) with the rows of the  *)
(* store: the messages of others created in the window, which starts 15    *)
(* seconds before after.  P is the cache and the guids emitted so far.     *)
(***************************************************************************)
getCacheName(entry) == entry.guid

RECURSIVE RowsOf(_, _)
RowsOf(st, gs) ==
    IF gs = {} THEN <<>>
    ELSE LET g == CHOOSE x \in gs : \A y \in gs : st[x].dateCreated <= st[y].dateCreated
         IN <<st[g]>> \o RowsOf(st, gs \ {g})

\* a query without the is_from_me condition
getMessagesOfAnyone(st, after, before) ==
    RowsOf(st, {g \in Guids : /\ st[g].present
                              /\ st[g].dateCreated >= after
                              /\ st[g].dateCreated <= before})

\* repo.getMessages({after, before, where: is_from_me = 0})
getMessages(st, after, before) ==
    RowsOf(st, {g \in Guids : /\ st[g].present /\ ~st[g].isFromMe
                              /\ st[g].dateCreated >= after
                              /\ st[g].dateCreated <= before})

\* a callback that does not look the key up in the cache
IncomingEntryNoFind(P, entry) ==
    [cache |-> CacheAdd(P.cache, getCacheName(entry)),
     emits |-> Append(P.emits, entry.guid)]

\* the callback of entries.forEach (lines 39-48)
IncomingEntry(P, entry) ==
    IF CacheFind(P.cache, getCacheName(entry)) THEN P
    ELSE [cache |-> CacheAdd(P.cache, getCacheName(entry)),
          emits |-> Append(P.emits, entry.guid)]

RECURSIVE IncomingEntries(_, _)
IncomingEntries(entries, P) ==
    IF entries = <<>> THEN P
    ELSE IncomingEntries(Tail(entries), IncomingEntry(P, Head(entries)))

\* the log with the new-entry events of a poll cycle added
Polled(log, st, emits) ==
    [g \in Guids |->
        log[g] \o [k \in 1..Cardinality({i \in 1..Len(emits) : emits[i] = g}) |->
                      [msg |-> st[g], seen |-> FALSE, event |-> "new-entry"]]]

IncomingGetEntries(after) ==
    /\ \E entries \in {getMessages(store, after - POLL_OFFSET, now)} :
          \E P \in {IncomingEntries(entries, [cache |-> cache, emits |-> <<>>])} :
             /\ cache' = P.cache
             /\ pushLog' = Polled(pushLog, store, P.emits)
             /\ last' = [op |-> "poll", rows |-> [i \in 1..Len(entries) |-> entries[i].guid],
                         emits |-> P.emits, before |-> cache]
    /\ UNCHANGED <<envVars, pollVars, cacheState, notSent, promises, helperVars>>

(***************************************************************************)
(* The polling loop of the listeners.  While a listener is polling, its    *)
(* timer runs a cycle: the window starts at the end of the last successful *)
(* window and ends now, the variant's getEntries queries the store and     *)
(* emits the rows whose key the cache does not hold.  A cycle whose query  *)
(* fails is logged; the window is not moved and the timer runs on.         *)
(***************************************************************************)
\* the query of the outgoing variant: the rows authored locally
getOwnMessages(st, after, before) ==
    RowsOf(st, {g \in Guids : /\ st[g].present /\ st[g].isFromMe
                              /\ st[g].dateCreated >= after
                              /\ st[g].dateCreated <= before})

VariantEntries(v, st, after, before) ==
    IF v = "incoming" THEN getMessages(st, after - POLL_OFFSET, before)
    ELSE getOwnMessages(st, after - POLL_OFFSET, before)

\* a loop that moves the window on after a failed cycle as well
AfterCycleMovingOn(p, ok, t) ==
    [p EXCEPT !.lastCheck = t, !.failed = ~ok]

\* a loop that a failed cycle ends
AfterCycleGivingUp(p, ok, t) ==
    IF ok THEN [p EXCEPT !.lastCheck = t, !.failed = FALSE]
    ELSE [p EXCEPT !.failed = TRUE, !.timer = FALSE]

\* the listener after a cycle at time t whose query succeeded or not
AfterCycle(p, ok, t) ==
    IF ok THEN [p EXCEPT !.lastCheck = t, !.failed = FALSE]
    ELSE [p EXCEPT !.failed = TRUE]

PollCycle(v, ok) ==
    /\ pollers[v].state = "polling" /\ pollers[v].timer
    /\ pollers' = [pollers EXCEPT ![v] = AfterCycle(@, ok, now)]
    /\ IF ok
       THEN \E entries \in {VariantEntries(v, store, pollers[v].lastCheck, now)} :
               \E P \in {IncomingEntries(entries, [cache |-> cache, emits |-> <<>>])} :
                  /\ cache' = P.cache
                  /\ pushLog' = Polled(pushLog, store, P.emits)
                  /\ last' = [op |-> "poll",
                              rows |-> [i \in 1..Len(entries) |-> entries[i].guid],
                              emits |-> P.emits, before |-> cache, variant |-> v,
                              recovered |-> pollers[v].failed]
       ELSE /\ last' = [op |-> "poll-failed", variant |-> v]
            /\ UNCHANGED <<cache, pushLog>>
    /\ UNCHANGED <<envVars, cacheState, notSent, promises, helperVars>>

\* start() and stop() of a polling listener
PollStart(v) ==
    /\ pollers[v].state = "idle"
    /\ pollers' = [pollers EXCEPT ![v] = Polling(now)]
    /\ last' = Idle
    /\ UNCHANGED <<envVars, cache, cacheState, notSent, promises, helperVars, pushLog>>

PollStop(v) ==
    /\ pollers[v].state = "polling"
    /\ pollers' = [pollers EXCEPT ![v].state = "idle", ![v].timer = FALSE]
    /\ last' = Idle
    /\ UNCHANGED <<envVars, cache, cacheState, notSent, promises, helperVars, pushLog>>

(***************************************************************************)
(* MessageInterface.sendMessageSync up to its first await (lines 46-106):  *)
(* the pending send is registered before the send method is looked at.     *)
(***************************************************************************)
\* the send methods sendMessageSync knows (lines 89-106)
SendMethods == {"apple-script", "private-api"}

sendMessageSync(chatGuid, message, method) ==
    /\ Len(promises) < MaxPending
    /\ IF chatGuid = ""
       THEN /\ promises' = promises
            /\ last' = [op |-> "send", threw |-> TRUE, method |-> method, added |-> 0]
       ELSE /\ promises' = add(promises, NewPromise(Len(promises) + 1, chatGuid, message,
                                                    now - SEND_OFFSET))
            /\ last' = [op |-> "send", threw |-> (method \notin SendMethods),
                        method |-> method, added |-> Len(promises) + 1]
    /\ awaits' = IF chatGuid # "" /\ method = "apple-script"
                 THEN [awaits EXCEPT !.sends = @ \cup {Len(promises) + 1}]
                 ELSE awaits
    /\ UNCHANGED <<envVars, listenerVars, txns, settled, typingCache, helper, sockets,
                   serverVars, pushLog>>

\* The caller of writeData resumes after the await of transaction.promise
\* (part_001, line 704) once the transaction is fulfilled or rejected.
ResumeRequest(transactionId) ==
    /\ transactionId \in awaits.requests
    /\ settled[transactionId].outcome \in {"fulfilled", "rejected"}
    /\ awaits' = [awaits EXCEPT !.requests = @ \ {transactionId}]
    /\ last' = [op |-> "resumed", outcome |-> settled[transactionId].outcome]
    /\ UNCHANGED <<envVars, listenerVars, promises, txns, settled, typingCache, helper,
                   sockets, serverVars, pushLog>>

\* sendMessageSync resumes after the await of awaiter.promise (line 92) once
\* the pending send is fulfilled or rejected.
ResumeSend(id) ==
    /\ id \in awaits.sends
    /\ promises[id].outcome \in {"fulfilled", "rejected"}
    /\ awaits' = [awaits EXCEPT !.sends = @ \ {id}]
    /\ last' = [op |-> "resumed", outcome |-> promises[id].outcome]
    /\ UNCHANGED <<envVars, listenerVars, promises, txns, settled, typingCache, helper,
                   sockets, serverVars, pushLog>>

(***************************************************************************)
(* Calls of the OutgoingMessageManager with a record: find and findIndex,  *)
(* resolve, reject.  first is the intent the call before fulfilled, when   *)
(* that call was a resolve of the same record.                             *)
(***************************************************************************)
Find(message, includeResolved) ==
    /\ last' = [op |-> "find", msg |-> message, includeResolved |-> includeResolved,
                found |-> find(promises, message, includeResolved),
                index |-> findIndex(promises, message, includeResolved)]
    /\ UNCHANGED <<envVars, listenerVars, promises, helperVars, pushLog>>

Resolve(message) ==
    /\ promises' = ManagerResolve(promises, message)
    /\ last' = [op |-> "resolve", msg |-> message,
                match |-> find(promises, message, FALSE).id,
                first |-> IF last.op = "resolve" /\ last.msg = message
                          THEN last.match ELSE 0,
                before |-> promises]
    /\ UNCHANGED <<envVars, listenerVars, helperVars, pushLog>>

Reject(reason, message) ==
    /\ \E rej \in {ManagerReject(promises, reason, message)} :
          /\ promises' = rej.promises
          /\ last' = [op |-> "reject", msg |-> message, found |-> rej.found,
                      before |-> promises]
    /\ UNCHANGED <<envVars, listenerVars, helperVars, pushLog>>

(***************************************************************************)
(* The classifier fed by the helper's message-update pushes.               *)
(***************************************************************************)
Next ==
    \/ AdvanceClock
    \/ \E g \in Guids : InsertRow(g, "incoming", "hi")
    \/ \E g \in Guids, f \in DateFields : UpdateRow(g, f)
    \/ \E sk \in {1} : Accept(sk)
    \/ \E g \in Guids : OnData(1, <<EventFrame("message-update", g)>>, FALSE)
    \/ checkCache
    \/ start
    \/ getEntries(BulkRows)

Spec == Init /\ [][Next]_vars

\* the last operation classified a record the store holds
ClassifiedRecord == last.op = "classify" /\ last.msg.present

\* the record classified last has the five dates of the snapshot it met
SameAsSnapshot == \A f \in DateFields : last.msg[f] = last.state[f]

\* C1: a record whose guid is not in the dedup cache is classified as
\* "new-entry", and right afterwards the cache finds its guid.
C1_NewEntryThenFound ==
    (ClassifiedRecord /\ ~last.seen)
        => (last.event = "new-entry" /\ CacheFind(cache, last.guid))

\* a record is classified whose guid the cache has lost while its snapshot stayed
C1_Witness ==
    /\ ClassifiedRecord /\ ~last.seen /\ last.state.has
    /\ last.event = "new-entry" /\ CacheFind(cache, last.guid)

\* C2 as stated: in every reachable state, a record whose guid has a snapshot
\* and whose five dates equal it is classified as no event.
C2_UnchangedNoEvent ==
    (ClassifiedRecord /\ last.state.has /\ SameAsSnapshot) => last.event = Null

\* C2 as amended: a record whose guid is in the dedup cache and has a
\* snapshot, and whose five dates equal that snapshot, is classified as no
\* event, and the classification writes neither the cache nor the snapshot.
C2_UnchangedSeenNoEvent ==
    (ClassifiedRecord /\ last.seen /\ last.state.has /\ SameAsSnapshot)
        => /\ last.event = Null
           /\ cacheState[last.guid] = last.state
           /\ CacheFind(cache, last.guid)

\* an unchanged record is classified again after the clock has moved on
C2_Witness ==
    /\ ClassifiedRecord /\ last.seen /\ last.state.has /\ SameAsSnapshot
    /\ last.event = Null
    /\ now > StartTime

\* C3: for a guid in the dedup cache with a snapshot, the classification is
\* "updated-entry" exactly if one of the five dates of the record (absent is
\* 0) is greater than the snapshot's, and no event otherwise.
C3_UpdatedIffAdvanced ==
    (ClassifiedRecord /\ last.seen /\ last.state.has)
        => /\ last.event \in {"updated-entry", Null}
           /\ last.event = "updated-entry"
                  <=> \E f \in DateFields : last.msg[f] > last.state[f]

\* a record whose dateRead alone advanced is classified as "updated-entry"
C3_Witness ==
    /\ ClassifiedRecord /\ last.seen /\ last.state.has
    /\ last.msg.dateRead > last.state.dateRead
    /\ \A f \in DateFields \ {"dateRead"} : last.msg[f] = last.state[f]
    /\ last.event = "updated-entry"

C25_SnapshotIsCurrent ==
    (ClassifiedRecord /\ last.event \in {"new-entry", "updated-entry"})
        => /\ cacheState[last.guid].has
           /\ \A f \in DateFields : cacheState[last.guid][f] = last.msg[f]
           /\ CacheFind(cache, last.guid)

\* an updated entry whose dateDelivered moved: the snapshot follows
C25_Witness ==
    /\ ClassifiedRecord /\ last.event = "updated-entry"
    /\ last.msg.dateDelivered > last.state.dateDelivered
    /\ cacheState[last.guid].dateDelivered = last.msg.dateDelivered

\* C40: a classification that yields no event leaves the dedup cache and
\* every snapshot as they were.
C40_NoEventChangesNothing ==
    [][(last'.op = "classify" /\ last'.event = Null)
          => UNCHANGED <<cache, cacheState>>]_vars

\* a record seen before and unchanged is classified again, snapshots of both
\* guids in the table
C40_Witness ==
    /\ ClassifiedRecord /\ last.event = Null
    /\ last.seen /\ last.state.has
    /\ \A g \in Guids : cacheState[g].has /\ CacheFind(cache, g)
    /\ cacheState[last.guid] = last.state

\* C33: every guid that is in the dedup cache has a snapshot, in every
\* reachable state, the states after checkCache() included.
C33_CachedGuidHasSnapshot ==
    \A g \in Guids : CacheFind(cache, g) => cacheState[g].has

\* C27: checkCache() purges the dedup cache exactly when it holds more than
\* 250 keys and leaves it as it was otherwise; of the snapshots it removes
\* none that was observed within the last 5 minutes, here the one the
\* operation just before it wrote.
C27_CheckCacheKeepsFresh ==
    last.op = "checkCache"
        => /\ cache = IF CacheSize(last.before.cache) > PURGE_THRESHOLD
                      THEN EmptyCache ELSE last.before.cache
           /\ \A g \in Guids : cacheState[g] \in {last.before.cacheState[g], NoState}
           /\ last.observed # "" => cacheState[last.observed] = last.before.cacheState[last.observed]

(***************************************************************************)
(* The pushes of one read each, with the classifications of every guid     *)
(* logged since the last checkCache or start.                              *)
(***************************************************************************)
NextPush ==
    \/ AdvanceClock
    \/ \E g \in Guids : InsertRow(g, "incoming", "hi")
    \/ \E g \in Guids, f \in {"dateDelivered", "dateRead"} : UpdateRow(g, f)
    \/ \E sk \in {1} : Accept(sk)
    \/ \E g \in Guids : OnData(1, <<EventFrame("message-update", g)>>, TRUE)
    \/ checkCache
    \/ start

SpecPush == Init /\ [][NextPush]_vars

\* pushes i, i+1 and i+2 of the log of g: a record whose guid the cache does
\* not hold, the same record unchanged, the record with a later dateDelivered
ThreePushes(g, i) ==
    /\ pushLog[g][i].msg.present
    /\ ~pushLog[g][i].seen
    /\ pushLog[g][i + 1].msg = pushLog[g][i].msg
    /\ pushLog[g][i + 2].msg.dateDelivered > pushLog[g][i + 1].msg.dateDelivered

C39_MissingRecordChangesNothing ==
    [][(last'.op = "classify" /\ ~last'.msg.present)
          => /\ last'.emits = <<>>
             /\ UNCHANGED <<cache, cacheState, notSent, promises>>]_vars

\* the guid was pushed before its row was in the store, and is pushed again
\* once the row is there: new-entry
C39_Witness ==
    /\ ClassifiedRecord /\ last.event = "new-entry"
    /\ Len(pushLog[last.guid]) = 2
    /\ ~pushLog[last.guid][1].msg.present
    /\ CacheFind(cache, last.guid) /\ cacheState[last.guid].has

(***************************************************************************)
(* Sends and their confirmation: pending sends are registered, the store   *)
(* gains self-authored rows, and the listener is called by the helper      *)
(* dispatch or directly with isFromMe set.                                 *)
(***************************************************************************)
NextOutgoing ==
    \/ \E g \in Guids, kind \in {"sent", "unsent", "errored"}, txt \in Texts :
          InsertRow(g, kind, txt)
    \/ \E g \in Guids : UpdateRow(g, "dateDelivered")
    \/ \E chatGuid \in Chats \cup {""}, txt \in Texts, method \in {"private-api", "sms"} :
          sendMessageSync(chatGuid, txt, method)
    \/ \E sk \in {1} : Accept(sk)
    \/ \E g \in Guids : OnData(1, <<EventFrame("message-update", g)>>, FALSE)
    \/ \E g \in Guids, isSent \in BOOLEAN : OnReceiveMessageUpdate(g, isSent, TRUE)

SpecOutgoing == Init /\ [][NextOutgoing]_vars

\* the last operation announced a self-authored record the cache had not seen
AnnouncedOwn == ClassifiedRecord /\ last.msg.isFromMe /\ ~last.seen

\* the last operation was a call by the helper dispatch, which passes the
\* listener no isFromMe
ByPush == last.op = "classify" /\ ~last.isFromMe

\* the last operation emitted an event of this name
Emitted(event) == \E i \in 1..Len(last.emits) : last.emits[i].event = event

\* C5: when a pending send is registered and a self-authored record that
\* matches it, sent and with error 0, is announced by a message-update push,
\* the pending send is fulfilled with the record and the record is emitted as
\* an outgoing event.
C5_SentResolvesPending ==
    (ByPush /\ AnnouncedOwn /\ last.msg.isSent /\ last.msg.error = 0 /\ last.match # 0)
        => /\ promises[last.match].outcome = "fulfilled"
           /\ promises[last.match].result = last.guid
           /\ \E i \in 1..Len(last.emits) :
                  /\ last.emits[i].guid = last.guid
                  /\ last.emits[i].kind = "outgoing-message"

\* the pending sends fulfilled with the record of guid g
FulfilledBy(g) ==
    {i \in 1..Len(promises) : promises[i].outcome = "fulfilled" /\ promises[i].result = g}

C9_ErrorRejectsPending ==
    (AnnouncedOwn /\ last.msg.error # 0)
        => /\ last.match # 0 => promises[last.match].outcome = "rejected"
           /\ Emitted("message-send-error") <=> last.match = 0

\* C30: when the listener is told of a self-authored record that is present,
\* not yet sent and without error, the call completes and the record's guid
\* is in the not-yet-sent tracking afterwards, for a later notification to
\* look back at.
C30_UnsentRemembered ==
    (ClassifiedRecord /\ last.isFromMe /\ last.msg.isFromMe
       /\ ~last.msg.isSent /\ last.msg.error = 0)
        => /\ ~last.threw
           /\ notSent.defined
           /\ \E i \in 1..Len(notSent.ids) : notSent.ids[i] = last.guid

\* C38: in an outgoing notification the newly sent record is handled on its
\* own account: when the listener is told of a self-authored record, sent and
\* without error, that the cache has not seen, the call completes and emits
\* the record, whatever the lookback finds.
C38_NewSentHandledOnItsOwn ==
    (ClassifiedRecord /\ last.isFromMe /\ last.msg.isFromMe
       /\ last.msg.isSent /\ last.msg.error = 0 /\ ~last.seen)
        => /\ ~last.threw
           /\ \E i \in 1..Len(last.emits) :
                  last.emits[i].guid = last.guid /\ last.emits[i].event = "new-entry"

\* C37: a sendMessageSync that fails on its arguments, a missing chatGuid or
\* a send method it does not know, leaves the pending sends as they were.
C37_FailedSendAddsNothing ==
    [][(last'.op = "send" /\ last'.threw) => promises' = promises]_vars

(***************************************************************************)
(* The OutgoingMessageManager on its own: sends register intents as the    *)
(* clock moves, and the manager is asked about confirmed records.          *)
(***************************************************************************)
Records ==
    {NewRow(g, "sent", txt, t) : g \in Guids, txt \in Texts, t \in {StartTime, EndTime}}

NextMgr ==
    \/ AdvanceClock
    \/ \E txt \in Texts : sendMessageSync("C1", txt, "private-api")
    \/ \E message \in Records, includeResolved \in BOOLEAN : Find(message, includeResolved)
    \/ \E message \in Records : Resolve(message)
    \/ \E message \in Records : Reject("message-send-error", message)

SpecMgr == Init /\ [][NextMgr]_vars

\* C7: when resolve(r) is called twice for the same record r, the pending
\* send p the first call fulfilled is fulfilled once: the second call does
\* not settle p again and leaves p, its result included, as it was.
C7_ResolveTwiceFulfilsOnce ==
    (last.op = "resolve" /\ last.first # 0)
        => /\ last.match # last.first
           /\ promises[last.first] = last.before[last.first]
           /\ promises[last.first].calls = 1
           /\ promises[last.first].outcome = "fulfilled"
           /\ promises[last.first].result = last.msg.guid

\* resolve(r) was called twice and the second call met another pending send
\* that matches r
C7_Witness ==
    /\ last.op = "resolve" /\ last.first # 0
    /\ last.match # 0
    /\ promises[last.first].outcome = "fulfilled"

\* the places, from 1, of the intents that match the record and that the scan
\* does not skip
Matching(ps, message, includeResolved) ==
    {i \in 1..Len(ps) : (includeResolved \/ ~ps[i].isResolved) /\ isSame(ps[i], message)}

\* C8: find and findIndex return the first intent, in insertion order, that
\* matches the record; without includeResolved a resolved intent is never
\* returned; when none matches find returns null and findIndex -1.
C8_FirstMatchInOrder ==
    last.op = "find"
        => IF Matching(promises, last.msg, last.includeResolved) = {}
           THEN last.found = NoPromise /\ last.index = -1
           ELSE /\ last.index + 1 \in Matching(promises, last.msg, last.includeResolved)
                /\ \A i \in Matching(promises, last.msg, last.includeResolved) :
                       last.index + 1 <= i
                /\ last.found = promises[last.index + 1]
                /\ ~last.includeResolved => ~last.found.isResolved

\* a scan that skipped a resolved intent that matches and returned a later one
C8_Witness ==
    /\ last.op = "find" /\ ~last.includeResolved
    /\ last.index >= 1
    /\ promises[1].isResolved /\ isSame(promises[1], last.msg)

(***************************************************************************)
(* The helper connection: sockets are accepted and closed, requests are    *)
(* written, and reads of up to MaxBurst lines arrive.                      *)
(***************************************************************************)
HelperFrames ==
    {ResponseFrame(id, "sent", "") : id \in TxnIds}
        \cup {ResponseFrame("T1", "", "failed"), BadFrame}

Bursts == UNION {[1..n -> HelperFrames] : n \in 1..MaxBurst}

NextHelper ==
    \/ \E socket \in SocketIds : Accept(socket)
    \/ \E socket \in SocketIds : Close(socket)
    \/ \E id \in TxnIds \cup {""}, written \in BOOLEAN : WriteData(id, written)
    \/ \E socket \in SocketIds, eventRaw \in Bursts : OnData(socket, eventRaw, FALSE)

SpecHelper == Init /\ [][NextHelper]_vars

\* the transaction was fulfilled or rejected
Settled(done, id) == done[id].outcome \in {"fulfilled", "rejected"}

\* C10: a transaction that a response frame fulfilled or rejected is no
\* longer found in the transaction manager, and a later response frame with
\* its id changes neither its result nor anything else.
C10_SettledOnceAndRemoved ==
    /\ \A id \in TxnIds : Settled(settled, id) => TxnFindIndex(txns, id) = -1
    /\ last.op = "data"
          => \A id \in TxnIds :
                Settled(last.before.settled, id)
                    => /\ settled[id] = last.before.settled[id]
                       /\ (Len(last.eventRaw) = 1 /\ last.eventRaw[1].transactionId = id)
                              => /\ txns = last.before.txns
                                 /\ settled = last.before.settled
                                 /\ typingCache = last.before.typingCache
                                 /\ last.emits = <<>>

\* a second response frame, an error this time, arrives for a fulfilled
\* transaction while another transaction is pending
C10_Witness ==
    /\ last.op = "data"
    /\ last.eventRaw = <<ResponseFrame("T1", "", "failed")>>
    /\ last.before.settled["T1"].outcome = "fulfilled"
    /\ Len(txns) = 1

\* C34: a step that closes a socket other than the one the helper reference
\* points to, which stays open, leaves the reference as it was.
C34_CloseOfEarlierKeepsHelper ==
    [][(helper # 0 /\ helper \in sockets' /\ sockets' # sockets /\ sockets' \subseteq sockets)
          => helper' = helper]_vars

(***************************************************************************)
(* Typing pushes of one conversation, a read each, as time passes in steps *)
(* of half the typing window and of just more than the window.             *)
(***************************************************************************)
TypingReads ==
    {<<EventFrame(event, guid)>> : event \in {"started-typing", "stopped-typing"},
                                   guid \in Chats}

NextTyping ==
    \/ \E sk \in {1} : Accept(sk)
    \/ \E ms \in {TYPING_WINDOW \div 2, TYPING_WINDOW + 1} : Elapse(ms)
    \/ \E eventRaw \in TypingReads : OnData(1, eventRaw, FALSE)

SpecTyping == Init /\ [][NextTyping]_vars

\* the last two reads were typing pushes of one conversation with one value
TwoTypingPushes ==
    /\ IsTypingPush(last) /\ last.prev.has
    /\ last.prev.guid = last.eventRaw[1].guid
    /\ last.prev.event = last.eventRaw[1].event

\* the typing-indicator events the last two reads emitted
TypingEvents == last.prev.emitted + Len(last.emits)

\* C11 as stated: two typing pushes of a conversation with the same value
\* emit one typing-indicator event when they are at most 5 seconds apart and
\* two when they are more than 5 seconds apart.
C11_TwoPushesOneOrTwoEvents ==
    TwoTypingPushes
        => /\ last.at - last.prev.at <= TYPING_WINDOW => TypingEvents = 1
           /\ last.at - last.prev.at > TYPING_WINDOW => TypingEvents = 2

\* C11 as amended: when the first of the two pushes was emitted, the two emit
\* one event if they are at most 5 seconds apart and two if more.
C11_EmittedThenOneOrTwoEvents ==
    (TwoTypingPushes /\ last.prev.emitted = 1)
        => /\ last.at - last.prev.at <= TYPING_WINDOW => TypingEvents = 1
           /\ last.at - last.prev.at > TYPING_WINDOW => TypingEvents = 2

\* the second push comes exactly at the end of the window and is held back
C11_Witness ==
    /\ TwoTypingPushes /\ last.prev.emitted = 1
    /\ last.at - last.prev.at = TYPING_WINDOW
    /\ TypingEvents = 1

\* whether a typing push of the conversation with this value is due, given
\* the typing cache it meets at time t
TypingDue(tc, guid, display, t) ==
    \/ ~tc[guid].has
    \/ tc[guid].lastValue # display
    \/ t - tc[guid].lastSeen > TYPING_WINDOW

\* C28: a typing push is emitted exactly when the conversation has no
\* typing-cache entry, or its value differs from the cached one, or more than
\* 5 seconds have passed since the last emission; an emitted push records its
\* time and value, and a suppressed push leaves the typing cache as it was, so
\* suppression never outlasts the window that started at the last emission.
C28_EmittedIffDue ==
    IsTypingPush(last)
        => /\ Len(last.emits) \in {0, 1}
           /\ Len(last.emits) = 1
                <=> TypingDue(last.before.typingCache, last.eventRaw[1].guid,
                              last.eventRaw[1].event = "started-typing", last.at)
           /\ Len(last.emits) = 0 => typingCache = last.before.typingCache
           /\ Len(last.emits) = 1
                => typingCache[last.eventRaw[1].guid]
                     = [has |-> TRUE, lastSeen |-> last.at,
                        lastValue |-> (last.eventRaw[1].event = "started-typing")]
           /\ (TwoTypingPushes /\ last.at - last.prev.at > TYPING_WINDOW)
                => Len(last.emits) = 1

\* a second suppressed push in a row, the cache still holding the time of the
\* emission before them
C28_Witness ==
    /\ TwoTypingPushes /\ last.prev.emitted = 0
    /\ Len(last.emits) = 0
    /\ last.at - typingCache[last.eventRaw[1].guid].lastSeen = TYPING_WINDOW
    /\ typingCache = last.before.typingCache

(***************************************************************************)
(* The life cycle of the helper service: start(), stop(), the outcome of   *)
(* each bind, server errors with their restarts, and helper connections.   *)
(***************************************************************************)
NextService ==
    \/ Start
    \/ Stop
    \/ \E sv \in 1..MaxServers : Listening(sv)
    \/ \E sv \in 1..MaxServers : ServerError(sv)
    \/ \E sv \in 1..MaxServers, socket \in SocketIds : OnConnection(sv, socket)
    \/ \E socket \in SocketIds : Close(socket)

SpecService == Init /\ [][NextService]_vars

\* C12: in a run of server errors with no successful listen in between, at
\* most 5 restarts are attempted, and the 6th failure restarts nothing.
C12_AtMostFiveRestarts ==
    /\ errorRun.restarts <= MAX_RESTARTS
    /\ (last.op = "server-error" /\ last.failures = MAX_RESTARTS + 1) => ~last.restarted

\* C18: after stop() returns, the socket the service held is destroyed, the
\* server it held is closed and has lost its listeners, and both references
\* are null, whether or not that server was listening.
C18_StopTearsDown ==
    last.op = "stop"
        => /\ helper = 0
           /\ server = 0
           /\ last.helper # 0 => last.helper \notin sockets
           /\ last.server # 0 => /\ last.server \notin InUse(servers)
                                 /\ ~servers[last.server].listeners

\* C19: at most one server of the service holds the helper port or is
\* about to at any time.
C19_OneServerAtATime == Cardinality(InUse(servers)) <= 1

\* C29: the restart counter equals the number of restarts the error handler
\* made since the last successful listen: a successful listen leaves it at 0,
\* each error-triggered restart adds one, and the first failure after a
\* successful listen is always restarted.
C29_CountsConsecutiveFailures ==
    /\ restartCounter = errorRun.restarts
    /\ last.op = "listening" => restartCounter = 0
    /\ (last.op = "server-error" /\ last.restarted) => restartCounter = last.failures
    /\ (last.op = "server-error" /\ last.failures = 1) => last.restarted

\* a second bind failure, a successful listen since the first: the counter
\* stands at 1, not 2
C29_Witness ==
    /\ last.op = "server-error" /\ last.restarted
    /\ Cardinality({sv \in 1..Len(servers) : servers[sv].state = "failed"}) = 2
    /\ \E sv \in 1..Len(servers) : servers[sv].state = "closed"
    /\ restartCounter = 1

(***************************************************************************)
(* Reads of the helper socket of up to MaxRead lines: a ping, the response *)
(* to a request, and a line that is not JSON.                              *)
(***************************************************************************)
ReadFrames == {EventFrame("ping", ""), ResponseFrame("T1", "sent", ""), BadFrame}

Reads == UNION {[1..n -> ReadFrames] : n \in 1..MaxRead}

NextRead ==
    \/ \E socket \in {1} : Accept(socket)
    \/ \E id \in TxnIds : WriteData(id, TRUE)
    \/ \E eventRaw \in Reads : OnData(1, eventRaw, FALSE)

SpecRead == Init /\ [][NextRead]_vars

\* the positions of the read that hold a line decoded to an object
Decodable(eventRaw) == {j \in 1..Len(eventRaw) : eventRaw[j].json = "obj"}

\* C13: a malformed frame of a read is discarded on its own: every
\* well-formed frame that follows it in the read is still dispatched.
C13_MalformedFrameSkipped ==
    last.op = "data"
        => \A j \in Decodable(last.eventRaw) :
              (\E i \in 1..(j - 1) : last.eventRaw[i] = BadFrame)
                  => \E k \in 1..Len(last.dispatched) :
                        last.dispatched[k] = last.eventRaw[j]

\* C15: a payload that a read holds more than once is dispatched exactly
\* once for the read, and the payloads are dispatched in the order in which
\* they first occur.
C15_DuplicateDispatchedOnce ==
    last.op = "data"
        => /\ \A j \in Decodable(last.eventRaw) :
                 (\E i \in 1..Len(last.eventRaw) : i # j /\ last.eventRaw[i] = last.eventRaw[j])
                     => Cardinality({k \in 1..Len(last.dispatched) :
                                        last.dispatched[k] = last.eventRaw[j]}) = 1
           /\ \A k, l \in 1..Len(last.dispatched) :
                 k < l => \E i \in Decodable(last.eventRaw) :
                             /\ last.eventRaw[i] = last.dispatched[k]
                             /\ \A j \in 1..i : last.eventRaw[j] # last.dispatched[l]

(***************************************************************************)
(* Send-and-await calls: requests are written to the helper and scripted   *)
(* sends are registered, their callers suspend, time passes, and responses *)
(* and confirmed records may or may not arrive.  The event loop runs the   *)
(* continuation of a caller whose deferred result is settled, and the      *)
(* clock moves on: these steps are weakly fair.  Nothing obliges the       *)
(* helper or the message store to answer.                                  *)
(***************************************************************************)
ResponseReads == {<<ResponseFrame(id, "sent", "")>> : id \in TxnIds}

NextAwait ==
    \/ AdvanceClock
    \/ \E sk \in {1} : Accept(sk)
    \/ \E id \in TxnIds, written \in BOOLEAN : WriteData(id, written)
    \/ \E eventRaw \in ResponseReads : OnData(1, eventRaw, FALSE)
    \/ \E id \in TxnIds : ResumeRequest(id)
    \/ \E chatGuid \in Chats : sendMessageSync(chatGuid, "hi", "apple-script")
    \/ \E message \in {NewRow("G1", "sent", "hi", StartTime)} : Resolve(message)
    \/ \E id \in 1..MaxPending : ResumeSend(id)

SpecAwait ==
    /\ Init /\ [][NextAwait]_vars
    /\ WF_vars(AdvanceClock)
    /\ WF_vars(\E id \in TxnIds : ResumeRequest(id))
    /\ WF_vars(\E id \in 1..MaxPending : ResumeSend(id))

\* C14: a caller suspended on the response to a helper request, or on the
\* record of a scripted send, does not stay suspended for ever: when the
\* response or the record never arrives the call returns all the same.
C14_SuspendedCallReturns ==
    /\ \A id \in TxnIds : (id \in awaits.requests) ~> (id \notin awaits.requests)
    /\ \A id \in 1..MaxPending : (id \in awaits.sends) ~> (id \notin awaits.sends)

\* the dispatched frames of the last read that carry the transaction id
Answers(id) == {k \in 1..Len(last.dispatched) : last.dispatched[k].transactionId = id}

\* the first of them
FirstAnswer(id) == last.dispatched[CHOOSE k \in Answers(id) : \A l \in Answers(id) : k <= l]

\* the transaction was pending when the last read arrived
WasPending(id) ==
    /\ last.before.settled[id].outcome = "pending"
    /\ TxnFindIndex(last.before.txns, id) >= 0

\* C16: a response frame whose transactionId matches a pending transaction
\* rejects it with the frame's error when the error is not empty and
\* otherwise fulfils it with the frame's identifier; a pending transaction no
\* response frame names stays as it was.
C16_ResponseSettlesItsTransaction ==
    last.op = "data"
        => \A id \in TxnIds :
              WasPending(id)
                  => IF Answers(id) # {}
                     THEN /\ settled[id] =
                                IF FirstAnswer(id).error # ""
                                THEN [outcome |-> "rejected", value |-> FirstAnswer(id).error]
                                ELSE [outcome |-> "fulfilled",
                                      value |-> FirstAnswer(id).identifier]
                          /\ TxnFindIndex(txns, id) = -1
                     ELSE /\ settled[id] = last.before.settled[id]
                          /\ TxnFindIndex(txns, id) >= 0

\* an error response rejects T1 while T2 stays pending
C16_Witness ==
    /\ last.op = "data"
    /\ last.eventRaw = <<ResponseFrame("T1", "", "failed")>>
    /\ WasPending("T1") /\ WasPending("T2")
    /\ settled["T1"] = [outcome |-> "rejected", value |-> "failed"]
    /\ settled["T2"].outcome = "pending"

\* every frame of the last read was a response nobody waited for
OnlyMisses ==
    /\ last.op = "data"
    /\ last.dispatched # <<>>
    /\ \A k \in 1..Len(last.dispatched) :
          /\ last.dispatched[k].transactionId # ""
          /\ TxnFindIndex(last.before.txns, last.dispatched[k].transactionId) = -1

\* C17: a response frame whose transactionId matches no pending transaction
\* changes nothing: the pending transactions, their results, the typing
\* cache and the classifier's cache and snapshots are as before, and nothing
\* is emitted.
C17_MissChangesNothing ==
    OnlyMisses
        => /\ txns = last.before.txns
           /\ settled = last.before.settled
           /\ typingCache = last.before.typingCache
           /\ cache = last.before.cache
           /\ cacheState = last.before.cacheState
           /\ last.emits = <<>>

\* a response for T2, which was never requested, arrives while T1 is pending
C17_Witness ==
    /\ OnlyMisses
    /\ last.eventRaw = <<ResponseFrame("T2", "sent", "")>>
    /\ settled["T2"].outcome = "none"
    /\ WasPending("T1")

(***************************************************************************)
(* The incoming listener polls as time passes and rows arrive; its window  *)
(* starts at the first poll or at the present, less the 15 seconds, so     *)
(* consecutive windows overlap.  start() purges the shared cache.          *)
(***************************************************************************)
NextPoll ==
    \/ \E ms \in {TYPING_WINDOW \div 2, TYPING_WINDOW + 1} : Elapse(ms)
    \/ \E g \in Guids, kind \in {"incoming", "sent"} : InsertRow(g, kind, "hi")
    \/ \E after \in {StartTime, now} : IncomingGetEntries(after)
    \/ start

SpecPoll == Init /\ [][NextPoll]_vars

\* how often the guid was emitted by the last poll cycle
EmittedByPoll(g) == Cardinality({k \in 1..Len(last.emits) : last.emits[k] = g})

\* C20: a row of a poll cycle whose key is in the dedup cache emits nothing;
\* a row whose key is absent is added to the cache and emitted as new-entry
\* once; between two purges no key is emitted twice.
C20_PollEmitsKeyOnce ==
    /\ last.op = "poll"
          => \A i \in 1..Len(last.rows) :
                IF CacheFind(last.before, last.rows[i])
                THEN EmittedByPoll(last.rows[i]) = 0
                ELSE /\ CacheFind(cache, last.rows[i])
                     /\ EmittedByPoll(last.rows[i]) = 1
    /\ \A g \in Guids : Len(pushLog[g]) <= 1

\* a later cycle whose window overlaps the one before returns the row G1
\* again, with the new row G2: only G2 is emitted
C20_Witness ==
    /\ last.op = "poll"
    /\ Len(last.rows) = 2
    /\ CacheFind(last.before, "G1") /\ ~CacheFind(last.before, "G2")
    /\ last.emits = <<"G2">>
    /\ store["G2"].dateCreated > store["G1"].dateCreated
    /\ Len(pushLog["G1"]) = 1

\* C31: the incoming polling listener emits new-entry only for rows that
\* were not authored locally.
C31_PollEmitsOnlyOthers ==
    last.op = "poll"
        => /\ \A i \in 1..Len(last.emits) : ~store[last.emits[i]].isFromMe
           /\ \A i \in 1..Len(last.rows) : ~store[last.rows[i]].isFromMe

\* a cycle whose window holds a row of the user and a row of someone else:
\* only the latter is emitted
C31_Witness ==
    /\ last.op = "poll"
    /\ Len(last.emits) = 1
    /\ \E g \in Guids : /\ store[g].present /\ store[g].isFromMe
                         /\ store[g].dateCreated = store[last.emits[1]].dateCreated
                         /\ ~CacheFind(cache, g)

(***************************************************************************)
(* The update listener and the incoming poller on the cache they share:    *)
(* rows arrive and are read, the poller finds them, the helper pushes      *)
(* their guids, and checkCache() runs as the clock moves on.               *)
(***************************************************************************)
UpdateReads == {<<EventFrame("message-update", g)>> : g \in Guids}

NextShared ==
    \/ AdvanceClock
    \/ \E g \in Guids : InsertRow(g, "incoming", "hi")
    \/ \E g \in Guids : UpdateRow(g, "dateRead")
    \/ \E sk \in {1} : Accept(sk)
    \/ \E eventRaw \in UpdateReads : OnData(1, eventRaw, FALSE)
    \/ \E after \in {StartTime} : IncomingGetEntries(after)
    \/ checkCache

SpecShared == Init /\ [][NextShared]_vars

\* C26: a record whose guid the dedup cache finds and that has no snapshot
\* is classified as no event, without a failure, and stays without a
\* snapshot; so for a guid the poller added to the cache and for a guid whose
\* snapshot checkCache() removed.
C26_NoSnapshotNoEvent ==
    (ClassifiedRecord /\ last.seen /\ ~last.state.has)
        => /\ last.event = Null
           /\ ~last.threw
           /\ ~cacheState[last.guid].has
           /\ CacheFind(cache, last.guid)

\* the poller emitted the row and added its guid to the cache; the row was
\* read since, and the push for it finds the guid without a snapshot
C26_Witness ==
    /\ ClassifiedRecord /\ last.seen /\ ~last.state.has
    /\ Len(pushLog[last.guid]) = 1
    /\ last.msg.dateRead > 0
    /\ last.event = Null


(***************************************************************************)
(* Commands with and without their required parameters: sendMessageSync,   *)
(* and the helper's sendMessage and sendReaction while a helper is or is   *)
(* not connected and responses settle the requests written before.         *)
(***************************************************************************)
NextCommands ==
    \/ \E sk \in {1} : Accept(sk)
    \/ \E sk \in {1} : Close(sk)
    \/ \E g \in Guids : InsertRow(g, "sent", "hi")
    \/ \E chatGuid \in Chats \cup {""}, message \in {"hi", ""}, id \in TxnIds,
          written \in BOOLEAN :
          sendMessage(chatGuid, message, id, written)
    \/ \E chatGuid \in Chats \cup {""}, g \in Guids \cup {""}, reactionType \in {"love", ""},
          id \in TxnIds :
          sendReaction(chatGuid, g, reactionType, id, TRUE)
    \/ \E chatGuid \in Chats \cup {""}, method \in {"apple-script", "private-api"} :
          sendMessageSync(chatGuid, "hi", method)
    \/ \E eventRaw \in ResponseReads : OnData(1, eventRaw, FALSE)
    \/ \E id \in TxnIds : ResumeRequest(id)

SpecCommands == Init /\ [][NextCommands]_vars

\* the step was a command that failed on a missing parameter
FailedOnParams ==
    \/ last'.op = "command" /\ last'.threw
    \/ last'.op = "send" /\ last'.threw /\ last'.added = 0

LoopReads == {<<EventFrame("message-update", "G1")>>}

NextLoop ==
    \/ AdvanceClock
    \/ \E g \in {"G1"} : InsertRow(g, "incoming", "hi")
    \/ \E g \in {"G2"} : InsertRow(g, "sent", "hi")
    \/ \E v \in Variants, ok \in BOOLEAN : PollCycle(v, ok)
    \/ \E v \in Variants : PollStop(v)
    \/ \E v \in Variants : PollStart(v)
    \/ \E sk \in {1} : Accept(sk)
    \/ \E eventRaw \in LoopReads : OnData(1, eventRaw, FALSE)
    \/ start

SpecLoop ==
    /\ Init /\ [][NextLoop]_vars
    /\ \A v \in Variants : WF_vars(PollCycle(v, TRUE))

\* the row of guid g was emitted as a semantic event: by a poll cycle since
\* the last purge, or by the push just read
RowEmitted(g) ==
    \/ \E i \in 1..Len(pushLog[g]) : pushLog[g][i].event = "new-entry"
    \/ /\ last.op = "classify" /\ last.guid = g
       /\ last.event \in {"new-entry", "updated-entry"}

\* the poller whose query returns the row of guid g
VariantOf(g) == IF store[g].isFromMe THEN "outgoing" ELSE "incoming"

NextPort == \E uid \in Uids : Port(uid)

SpecPort == Init /\ [][NextPort]_vars

\* the port before clamping lies in the range
Unclamped(uid) == MIN_PORT + uid - FIRST_UID \in MIN_PORT..MAX_PORT

\* C32: the helper port is MIN_PORT + uid - 501 clamped into the range from
\* MIN_PORT to MAX_PORT: it lies in the range, two reads for one uid give one
\* port, and two uids whose unclamped values lie in the range get two ports.
C32_PortClampedAndStable ==
    last.op = "port"
        => /\ last.port \in MIN_PORT..MAX_PORT
           /\ Unclamped(last.uid) => last.port = MIN_PORT + last.uid - FIRST_UID
           /\ MIN_PORT + last.uid - FIRST_UID < MIN_PORT => last.port = MIN_PORT
           /\ MIN_PORT + last.uid - FIRST_UID > MAX_PORT => last.port = MAX_PORT
           /\ (last.prev.has /\ last.prev.uid = last.uid) => last.prev.port = last.port
           /\ (last.prev.has /\ last.prev.uid # last.uid
                  /\ Unclamped(last.uid) /\ Unclamped(last.prev.uid))
                => last.prev.port # last.port

\* a user id past the end of the range after one at its end: both get MAX_PORT
C32_Witness ==
    /\ last.op = "port" /\ last.prev.has
    /\ ~Unclamped(last.uid) /\ Unclamped(last.prev.uid)
    /\ last.port = MAX_PORT /\ last.prev.port = MAX_PORT


(***************************************************************************)
(* Requests with a transaction written to the helper socket, or not: the   *)
(* helper connects and disconnects, a write is taken or refused by the     *)
(* socket and may fail afterwards, responses arrive and callers resume.    *)
(***************************************************************************)
NextWrite ==
    \/ \E sk \in {1} : Accept(sk)
    \/ \E sk \in {1} : Close(sk)
    \/ AdvanceClock
    \/ \E g \in Guids : InsertRow(g, "sent", "hi")
    \/ \E id \in TxnIds, written \in BOOLEAN, err \in BOOLEAN : WriteRequest(id, written, err)
    \/ \E eventRaw \in ResponseReads : OnData(1, eventRaw, FALSE)
    \/ \E id \in TxnIds : ResumeRequest(id)

SpecWrite == Init /\ [][NextWrite]_vars

\* the write of the last request failed: no helper, refused, or an error
WriteFailed == ~last.connected \/ ~last.written \/ last.err

\* C35: when the write of a request with a transaction fails, writeData
\* returns null, no caller is left waiting for the transaction, and the
\* transaction stays pending in the transaction manager.
C35_FailedWriteReturnsNull ==
    (last.op = "request" /\ WriteFailed)
        => /\ last.returned = Null
           /\ last.transactionId \notin awaits.requests
           /\ TxnFindIndex(txns, last.transactionId) # -1
           /\ settled[last.transactionId].outcome = "pending"


\* the transaction is in the manager, or a response settled it
Registered(ts, done, id) == TxnFindIndex(ts, id) # -1 \/ Settled(done, id)

\* C36: a request with a transaction is registered in the transaction
\* manager by the time its frame is written: after the write the transaction
\* is found, every caller waiting for a response has its transaction
\* registered until it is settled, and a response for such a request meets a
\* registered transaction.
C36_RegisteredBeforeWritten ==
    /\ (last.op = "request" /\ last.connected)
          => TxnFindIndex(txns, last.transactionId) # -1
    /\ \A id \in awaits.requests : Registered(txns, settled, id)
    /\ last.op = "data"
          => \A i \in 1..Len(last.eventRaw) :
                last.eventRaw[i].transactionId \in awaits.requests
                    => Registered(last.before.txns, last.before.settled,
                                  last.eventRaw[i].transactionId)

\* the response to a request arrives while its caller waits: the transaction
\* was in the manager and is settled now
C36_Witness ==
    /\ last.op = "data"
    /\ last.eventRaw[1].transactionId \in awaits.requests
    /\ TxnFindIndex(last.before.txns, last.eventRaw[1].transactionId) # -1
    /\ settled[last.eventRaw[1].transactionId].outcome = "fulfilled"

=============================================================================
